---- MODULE Spec2Model ----
(***************************************************************************)
(* Remediation orchestration engine of openhands-sre:                      *)
(*   - web_demo/app.py        RunManager (web fan-out dispatcher)           *)
(*   - scripts/fanout_sre.py  continuous-arrival dispatcher                 *)
(*   - openhands_driver/agent_wrapper.py  OpenHandsSRE.forward (Runner)     *)
(* Each part has its own specification; the variables of the other parts   *)
(* stay at their initial value.                                            *)
(***************************************************************************)
EXTENDS Integers, Sequences, FiniteSets, TLC

(***************************************************************************)
(* Bounds of the model                                                     *)
(***************************************************************************)
MaxIncidents == 3
MaxConcurrency == 2
MaxSeed == 2
MaxRetries == 4
MaxPolls == 4
MaxClock == 2

(***************************************************************************)
(* Program constants                                                       *)
(***************************************************************************)
CompletedWindow == 400
ErrorStepCount == 999

SEVERITIES == <<"critical", "high", "medium", "low">>
SEVERITY_WEIGHTS == <<1, 2, 4, 3>>
SEVERITY_RANK == [s \in {"critical", "high", "medium", "low"} |->
                    CASE s = "critical" -> 4 [] s = "high" -> 3
                      [] s = "medium" -> 2 [] OTHER -> 1]
SCENARIO_ERRORS == <<"stale_lockfile", "readiness_probe_fail", "port_mismatch">>

(***************************************************************************)
(* Helpers on sequences                                                    *)
(***************************************************************************)
Range(s) == {s[i] : i \in DOMAIN s}

\* s[-n:]  (the last n elements of s)
LastN(s, n) == IF Len(s) <= n THEN s ELSE SubSeq(s, Len(s) - n + 1, Len(s))

\* the seeded pseudo-random stream random.seed(seed); k-th draw, in 0..9
RandomDraw(seed, k) == (seed * 7 + k * 3 + seed * k * k) % 10

\* random.choices(SEVERITIES, weights=SEVERITY_WEIGHTS): cumulative weights
\* 1, 3, 7, 10 over a draw in 0..9
WeightedSeverity(d) ==
  IF d < SEVERITY_WEIGHTS[1] THEN SEVERITIES[1]
  ELSE IF d < SEVERITY_WEIGHTS[1] + SEVERITY_WEIGHTS[2] THEN SEVERITIES[2]
  ELSE IF d < SEVERITY_WEIGHTS[1] + SEVERITY_WEIGHTS[2] + SEVERITY_WEIGHTS[3]
       THEN SEVERITIES[3]
  ELSE SEVERITIES[4]

\* Incident(id, scenario_id, severity): the i-th generated incident
Incident(seed, i) ==
  [id |-> i,
   scenario_id |-> SCENARIO_ERRORS[(RandomDraw(seed, 2 * i - 1) % Len(SCENARIO_ERRORS)) + 1],
   severity |-> WeightedSeverity(RandomDraw(seed, 2 * i))]

\* the sort without reverse=True: the ranks come in ascending order
SortBySeverityAscending(items) ==
  SelectSeq(items, LAMBDA x : SEVERITY_RANK[x.severity] = 1) \o
  SelectSeq(items, LAMBDA x : SEVERITY_RANK[x.severity] = 2) \o
  SelectSeq(items, LAMBDA x : SEVERITY_RANK[x.severity] = 3) \o
  SelectSeq(items, LAMBDA x : SEVERITY_RANK[x.severity] = 4)

\* items.sort(key=SEVERITY_RANK[severity], reverse=True): a stable sort, so
\* the items of one rank keep their order and the ranks come in descending order
SortBySeverity(items) ==
  SelectSeq(items, LAMBDA x : SEVERITY_RANK[x.severity] = 4) \o
  SelectSeq(items, LAMBDA x : SEVERITY_RANK[x.severity] = 3) \o
  SelectSeq(items, LAMBDA x : SEVERITY_RANK[x.severity] = 2) \o
  SelectSeq(items, LAMBDA x : SEVERITY_RANK[x.severity] = 1)

generate_incidents(seed, count) ==
  SortBySeverity([i \in 1..count |-> Incident(seed, i)])

\* Incident.to_dict
to_dict(inc) == [id |-> inc.id, scenario_id |-> inc.scenario_id, severity |-> inc.severity]

(***************************************************************************)
(* State                                                                   *)
(***************************************************************************)
VARIABLES
  state,        \* RunManager.state (shared, guarded by RunManager._lock)
  cancel,       \* RunManager._cancel (threading.Event)
  payload,      \* the payload of the run in progress
  stop_pc,      \* position of a stop() caller: "idle" or "set"
  pc,           \* position of the _run_job thread
  concurrency,  \* _run_job local: effective concurrency
  queue,        \* _run_job local: incidents not yet submitted
  active,       \* _run_job local: dict Future -> (worker_id, Incident), in insertion order
  next_worker,  \* _run_job local
  done,         \* _run_job local: futures of the current batch still to handle
  cur_worker,   \* _run_job local: worker_id of the future handled last
  tasks,        \* pool futures: fut -> [st, row]
  cancel_seen   \* history: _run_job has read self._cancel.is_set() as true

webVars == <<state, cancel, payload, stop_pc, pc, concurrency, queue,
             active, next_worker, done, cur_worker, tasks, cancel_seen>>

VARIABLES
  call,          \* OpenHandsSRE fields and the arguments of the forward() call
  fpc,           \* position of the forward() call
  attempt,       \* _run_real local: attempts started
  last_exc,      \* the exception caught last
  events,        \* conv.state.events of the session of the current attempt
  open_sessions, \* Conversation objects opened and not closed
  opened,        \* Conversation objects opened by this call
  sleeps,        \* the time.sleep durations of this call, in order
  outcomes,      \* the outcome of each attempt of this call, in order
  result         \* what forward() returned or raised

runnerVars == <<call, fpc, attempt, last_exc, events, open_sessions, opened,
                sleeps, outcomes, result>>

VARIABLES
  args,             \* the command line of fanout_sre.py
  fan_pc,           \* position of main() in the continuous loop
  window_open,      \* time.time() < end_time
  next_incident_id, \* the id of the next generated incident
  fan_active,       \* active: the futures (by incident id) the dispatcher holds
  work_queue,       \* the executor's work queue: submitted, not yet started
  running,          \* the work items the executor's threads are running
  finished,         \* the finished futures: incident id -> result or exception
  fan_done,         \* done: the set wait() returned, not yet handled
  fan_completed     \* completed: the result rows

fanVars == <<args, fan_pc, window_open, next_incident_id, fan_active, work_queue,
             running, finished, fan_done, fan_completed>>

VARIABLES
  vargs,         \* the arguments of verify_stable_endpoint
  vpc,           \* position of verify_stable_endpoint
  polled,        \* the responses of the polls made so far
  successes,     \* the current streak of successful polls
  attempts,      \* the http codes of the polls
  last_failure,  \* the reason of the last failed poll
  verification   \* what verify_stable_endpoint returned or raised

verifierVars == <<vargs, vpc, polled, successes, attempts, last_failure, verification>>

VARIABLES
  dargs,              \* the command line of run_demo.py
  dpc,                \* position of run_demo.main
  demo_result,        \* result: the dict forward() returned, as main() reports it
  container_identity  \* the container identity check, when it was made

demoVars == <<dargs, dpc, demo_result, container_identity>>

VARIABLES
  gargs,        \* the arguments of the generate_incidents call in progress
  gpc,          \* position of generate_incidents
  rng,          \* the state of the random module: the seed and the draws made
  now,          \* time.time()
  rows,         \* generate_incidents local: the incidents generated so far
  generations   \* the lists the calls made so far have returned

genVars == <<gargs, gpc, rng, now, rows, generations>>

VARIABLES
  response,     \* the response of the last /api/run or /api/stop request
  stop_target   \* history: the run whose status the pending stop() has read:
                \* "none", "current", or "previous" once another run has started

ctlVars == <<response, stop_target>>

vars == <<webVars, runnerVars, fanVars, verifierVars, demoVars, genVars, ctlVars>>

\* the variables of the other parts
nonWebVars == <<runnerVars, fanVars, verifierVars, demoVars, genVars, ctlVars>>
nonRunnerVars == <<webVars, fanVars, verifierVars, demoVars, genVars, ctlVars>>
nonFanVars == <<webVars, runnerVars, verifierVars, demoVars, genVars, ctlVars>>
nonVerifierVars == <<webVars, runnerVars, fanVars, demoVars, genVars, ctlVars>>
nonGenVars == <<webVars, runnerVars, fanVars, verifierVars, demoVars, ctlVars>>

(***************************************************************************)
(* RunManager                                                              *)
(***************************************************************************)
NoPayload == [simulate |-> TRUE, incidents |-> 0, concurrency |-> 1, seed |-> 1,
              allow_fallback |-> FALSE, remote_host |-> FALSE,
              allow_local_workspace |-> FALSE]

_initial_state ==
  [status |-> "idle",
   summary |-> [total |-> 0, queue |-> 0, active |-> 0, completed |-> 0,
                fixed |-> 0, failed |-> 0],
   queue |-> <<>>, active |-> <<>>, completed |-> <<>>, error |-> "none"]

\* number of records of a sequence with service_up = true
CountFixed(completed) == Cardinality({i \in DOMAIN completed : completed[i].service_up})

\* a state change that leaves the summary as it was
_update_metrics_skipped(st) == st

\* _update_metrics: the summary derived from the state's collections
_update_metrics(st) ==
  [st EXCEPT !.summary =
     [total |-> st.summary.total,
      queue |-> Len(st.queue),
      active |-> Len(st.active),
      completed |-> Len(st.completed),
      fixed |-> CountFixed(st.completed),
      failed |-> Len(st.completed) - CountFixed(st.completed)]]

\* get_state: a copy of the state taken under the lock
get_state ==
  [status |-> state.status, summary |-> state.summary, queue |-> state.queue,
   active |-> state.active, completed |-> state.completed, error |-> state.error]

\* the active_items list built from the local active dict
ActiveItems(act) ==
  [i \in DOMAIN act |->
     [worker_id |-> act[i].worker_id, incident_id |-> act[i].inc.id,
      scenario_id |-> act[i].inc.scenario_id, severity |-> act[i].inc.severity]]

\* state["queue"] = [q.to_dict() for q in queue]; state["active"] = active_items;
\* _update_metrics
SyncState(st, q, act) ==
  _update_metrics([st EXCEPT !.queue = [i \in DOMAIN q |-> to_dict(q[i])],
                             !.active = ActiveItems(act)])

\* the payloads a start() call may carry
Payloads ==
  [simulate : {TRUE}, incidents : 0..MaxIncidents, concurrency : 0..MaxConcurrency,
   seed : 1..MaxSeed, allow_fallback : {FALSE}, remote_host : {FALSE},
   allow_local_workspace : {FALSE}]
  \cup
  [simulate : {FALSE}, incidents : 0..MaxIncidents, concurrency : 0..MaxConcurrency,
   seed : {1}, allow_fallback : BOOLEAN, remote_host : BOOLEAN,
   allow_local_workspace : BOOLEAN]

\* the payloads, and a run of more incidents than the completed window holds
\* (a simulated run of one worker)
LargePayloads ==
  Payloads
  \cup
  [simulate : {TRUE}, incidents : {CompletedWindow + 1}, concurrency : {1},
   seed : {1}, allow_fallback : {FALSE}, remote_host : {FALSE},
   allow_local_workspace : {FALSE}]

WebInit ==
  /\ state = _initial_state
  /\ cancel = FALSE
  /\ payload = NoPayload
  /\ stop_pc = "idle"
  /\ pc = "none"
  /\ concurrency = 0
  /\ queue = <<>>
  /\ active = <<>>
  /\ next_worker = 0
  /\ done = {}
  /\ cur_worker = 0
  /\ tasks = <<>>
  /\ cancel_seen = FALSE

\* a start() that never finds a run in progress
AlreadyRunningNever(st) == FALSE

\* if self.state["status"] == "running"
AlreadyRunning(st) == st.status = "running"

\* RunManager.start
start(p) ==
  /\ ~AlreadyRunning(state)
  /\ cancel' = FALSE
  /\ state' = [_initial_state EXCEPT !.status = "running"]
  /\ payload' = p
  /\ pc' = "setup"
  /\ concurrency' = 0
  /\ queue' = <<>>
  /\ active' = <<>>
  /\ next_worker' = 0
  /\ done' = {}
  /\ cur_worker' = 0
  /\ tasks' = <<>>
  /\ cancel_seen' = FALSE
  /\ UNCHANGED stop_pc

\* RunManager.stop, up to the release of the lock: reads the status
stop_read ==
  /\ stop_pc = "idle"
  /\ stop_pc' = IF state.status = "running" THEN "set" ELSE "idle"
  /\ UNCHANGED <<state, cancel, payload, pc, concurrency, queue, active,
                 next_worker, done, cur_worker, tasks, cancel_seen>>

\* RunManager.stop, after the lock: self._cancel.set()
stop_set ==
  /\ stop_pc = "set"
  /\ cancel' = TRUE
  /\ stop_pc' = "idle"
  /\ UNCHANGED <<state, payload, pc, concurrency, queue, active,
                 next_worker, done, cur_worker, tasks, cancel_seen>>

(***************************************************************************)
(* The request handlers api_run and api_stop                               *)
(***************************************************************************)
NoResponse == [kind |-> "none"]

CtlInit ==
  /\ response = NoResponse
  /\ stop_target = "none"

\* POST /api/run, start() accepted: 200 and (True, "started"); a stop() that
\* has read the status of the run before is now pending against this run
api_run_started(p) ==
  /\ start(p)
  /\ response' = [kind |-> "run", ok |-> TRUE, message |-> "started", code |-> 200]
  /\ stop_target' = IF stop_pc = "set" THEN "previous" ELSE stop_target

\* POST /api/run while a run is in progress: 409 and
\* (False, "A run is already in progress"); the payload is not looked at
api_run_rejected ==
  /\ AlreadyRunning(state)
  /\ response' = [kind |-> "run", ok |-> FALSE,
                  message |-> "A run is already in progress", code |-> 409]
  /\ UNCHANGED <<webVars, stop_target>>

\* POST /api/stop, up to the release of the lock in stop(); with no run in
\* progress stop() returns False
api_stop_read ==
  /\ stop_read
  /\ IF state.status = "running"
       THEN stop_target' = "current" /\ UNCHANGED response
       ELSE stop_target' = "none" /\ response' = [kind |-> "stop", ok |-> FALSE]

\* POST /api/stop, the rest of stop(): the cancel event is set, True is returned
api_stop_set ==
  /\ stop_set
  /\ response' = [kind |-> "stop", ok |-> TRUE]
  /\ stop_target' = "none"

(***************************************************************************)
(* RunManager._run_job                                                     *)
(***************************************************************************)
\* an except clause that records the error and leaves the status as it is
FailKeepsRunning(msg) ==
  /\ state' = [state EXCEPT !.error = msg]
  /\ pc' = "done"

\* the except clause of _run_job: status "failed" and str(exc)
Fail(msg) ==
  /\ state' = [state EXCEPT !.status = "failed", !.error = msg]
  /\ pc' = "done"

\* a set-up that does not check the configuration
ConfigErrorUnchecked(p) == FALSE

\* the configuration check: real mode needs a remote host or a local workspace
ConfigError(p) == ~p.simulate /\ ~p.remote_host /\ ~p.allow_local_workspace

\* a concurrency that is never capped
EffectiveConcurrencyUncapped(p) == p.concurrency

\* the effective concurrency: real mode is capped to 1
EffectiveConcurrency(p) ==
  IF ~p.simulate /\ p.concurrency > 1 THEN 1 ELSE p.concurrency

\* the set-up of the run: the payload is read, the configuration is checked, the
\* concurrency is capped, the runner and the strategy hint are built
Setup ==
  /\ pc = "setup"
  /\ IF ConfigError(payload)
       THEN Fail("config") /\ UNCHANGED concurrency
       ELSE /\ concurrency' = EffectiveConcurrency(payload)
            /\ pc' = "load"
            /\ UNCHANGED state
  /\ UNCHANGED <<cancel, payload, stop_pc, queue, active, next_worker,
                 done, cur_worker, tasks, cancel_seen>>

\* any other exception of the set-up (environment, optimizer, examples)
SetupRaises ==
  /\ pc = "setup"
  /\ ~ConfigError(payload)
  /\ Fail("setup")
  /\ UNCHANGED <<cancel, payload, stop_pc, concurrency, queue, active,
                 next_worker, done, cur_worker, tasks, cancel_seen>>

\* the incidents are generated and sorted and the queue is loaded into the state
LoadQueue ==
  /\ pc = "load"
  /\ LET items == generate_incidents(payload.seed, payload.incidents)
     IN /\ queue' = items
        /\ state' = _update_metrics(
                      [state EXCEPT !.queue = [i \in DOMAIN items |-> to_dict(items[i])],
                                    !.summary.total = payload.incidents])
  /\ pc' = "pool"
  /\ UNCHANGED <<cancel, payload, stop_pc, concurrency, active, next_worker,
                 done, cur_worker, tasks, cancel_seen>>

\* a future submitted to the pool: it runs task()
NewTask == [st |-> "running", row |-> <<>>]

\* submit_next that always takes the next id of the round-robin, also for a
\* slot that a completion freed
submit_next_round_robin(q, act, nw, tk, worker_id) ==
  IF q = <<>> THEN <<q, act, nw, tk>>
  ELSE LET wid == (nw % concurrency) + 1
           inc == Head(q)
       IN <<Tail(q),
            Append(act, [fut |-> inc.id, worker_id |-> wid, inc |-> inc]),
            nw + 1,
            (inc.id :> NewTask) @@ tk>>

\* submit_next that takes the incident at the end of the queue: queue.pop()
submit_next_from_end(q, act, nw, tk, worker_id) ==
  IF q = <<>> THEN <<q, act, nw, tk>>
  ELSE LET wid == IF worker_id = 0 THEN (nw % concurrency) + 1 ELSE worker_id
           nw2 == IF worker_id = 0 THEN nw + 1 ELSE nw
           inc == q[Len(q)]
       IN <<SubSeq(q, 1, Len(q) - 1),
            Append(act, [fut |-> inc.id, worker_id |-> wid, inc |-> inc]),
            nw2,
            (inc.id :> NewTask) @@ tk>>

\* submit_next(worker_id) for a worker_id that is given (0 stands for None): the
\* result is the new <<queue, active, next_worker, tasks>>
submit_next(q, act, nw, tk, worker_id) ==
  IF q = <<>> THEN <<q, act, nw, tk>>
  ELSE LET wid == IF worker_id = 0 THEN (nw % concurrency) + 1 ELSE worker_id
           nw2 == IF worker_id = 0 THEN nw + 1 ELSE nw
           inc == Head(q)
       IN <<Tail(q),
            Append(act, [fut |-> inc.id, worker_id |-> wid, inc |-> inc]),
            nw2,
            (inc.id :> NewTask) @@ tk>>

\* the loop test of the initial fill, with <= for <
PoolHasRoomOffByOne(q, act, conc) == q # <<>> /\ Len(act) <= conc

\* while queue and len(active) < concurrency
PoolHasRoom(q, act, conc) == q # <<>> /\ Len(act) < conc

\* while queue and len(active) < concurrency: submit_next()
RECURSIVE InitialFill(_, _, _, _, _)
InitialFill(q, act, nw, tk, conc) ==
  IF PoolHasRoom(q, act, conc)
    THEN LET r == submit_next(q, act, nw, tk, 0)
         IN InitialFill(r[1], r[2], r[3], r[4], conc)
    ELSE <<q, act, nw, tk>>

\* ThreadPoolExecutor(max_workers=concurrency) and the initial fill of the pool
CreatePool ==
  /\ pc = "pool"
  /\ IF concurrency <= 0
       THEN Fail("max_workers") /\ UNCHANGED <<queue, active, next_worker, tasks>>
       ELSE LET r == InitialFill(queue, <<>>, 0, <<>>, concurrency)
            IN /\ queue' = r[1]
               /\ active' = r[2]
               /\ next_worker' = r[3]
               /\ tasks' = r[4]
               /\ pc' = "loop"
               /\ UNCHANGED state
  /\ UNCHANGED <<cancel, payload, stop_pc, concurrency, done, cur_worker, cancel_seen>>

\* the rows task() can return: the simulated outcome in a dry run; in real mode
\* the Real outcome (service_up false), or the simulation fallback
TaskRows(a) ==
  IF payload.simulate
    THEN {[incident_id |-> a.inc.id, worker_id |-> a.worker_id, service_up |-> TRUE,
           step_count |-> 3, latency_s |-> "measured", fallback_used |-> FALSE,
           error |-> FALSE]}
    ELSE {[incident_id |-> a.inc.id, worker_id |-> a.worker_id, service_up |-> FALSE,
           step_count |-> 1, latency_s |-> "measured", fallback_used |-> FALSE,
           error |-> FALSE]}
         \cup
         (IF payload.allow_fallback
            THEN {[incident_id |-> a.inc.id, worker_id |-> a.worker_id,
                   service_up |-> TRUE, step_count |-> 3, latency_s |-> "measured",
                   fallback_used |-> TRUE, error |-> FALSE]}
            ELSE {})

\* task() raises: runner.forward raises in real mode when fallback is not allowed
TaskMayRaise == ~payload.simulate /\ ~payload.allow_fallback

\* a worker thread finishes task(): the future holds a row
TaskReturns(f) ==
  /\ f \in DOMAIN tasks
  /\ tasks[f].st = "running"
  /\ \E i \in DOMAIN active :
       /\ active[i].fut = f
       /\ \E row \in TaskRows(active[i]) :
            tasks' = [tasks EXCEPT ![f] = [st |-> "returned", row |-> row]]
  /\ UNCHANGED <<state, cancel, payload, stop_pc, pc, concurrency, queue,
                 active, next_worker, done, cur_worker, cancel_seen>>

\* a worker thread finishes task() with an exception
TaskRaises(f) ==
  /\ f \in DOMAIN tasks
  /\ tasks[f].st = "running"
  /\ TaskMayRaise
  /\ tasks' = [tasks EXCEPT ![f] = [st |-> "raised", row |-> <<>>]]
  /\ UNCHANGED <<state, cancel, payload, stop_pc, pc, concurrency, queue,
                 active, next_worker, done, cur_worker, cancel_seen>>

\* while active: if self._cancel.is_set(): break
LoopTest ==
  /\ pc = "loop"
  /\ pc' = IF active = <<>> \/ cancel THEN "exit" ELSE "wait"
  /\ cancel_seen' = (cancel_seen \/ (active # <<>> /\ cancel))
  /\ UNCHANGED <<state, cancel, payload, stop_pc, concurrency, queue, active,
                 next_worker, done, cur_worker, tasks>>

\* done, _ = wait(active.keys(), timeout=0.2, return_when=FIRST_COMPLETED):
\* the futures finished so far, none of them on a timeout
Wait ==
  /\ pc = "wait"
  /\ done' = {f \in DOMAIN tasks : tasks[f].st # "running"}
  /\ pc' = "handle"
  /\ UNCHANGED <<state, cancel, payload, stop_pc, concurrency, queue, active,
                 next_worker, cur_worker, tasks, cancel_seen>>

\* the error row with service_up left true
ErrorRowServiceUp(a) ==
  [incident_id |-> a.inc.id, worker_id |-> a.worker_id, service_up |-> TRUE,
   step_count |-> ErrorStepCount, latency_s |-> "0.0", fallback_used |-> FALSE,
   error |-> TRUE]

\* the row recorded for a future that raised
ErrorRow(a) ==
  [incident_id |-> a.inc.id, worker_id |-> a.worker_id, service_up |-> FALSE,
   step_count |-> ErrorStepCount, latency_s |-> "0.0", fallback_used |-> FALSE,
   error |-> TRUE]

\* the row of a finished future: fut.result(), or the error row
ResultRow(a) ==
  IF tasks[a.fut].st = "raised" THEN ErrorRow(a) ELSE tasks[a.fut].row

\* the append done twice
AppendCompletedTwice(completed, row) ==
  LastN(Append(Append(completed, row), row), CompletedWindow)

\* the window cut from the front: [:400] keeps the oldest records
AppendCompletedKeepsOldest(completed, row) ==
  IF Len(completed) >= CompletedWindow THEN completed ELSE Append(completed, row)

\* self.state["completed"].append(row); self.state["completed"] = [...][-400:]
AppendCompleted(completed, row) == LastN(Append(completed, row), CompletedWindow)

\* active.pop(fut) that leaves the future in the dict
PopKeeps(act, f) == act

\* active.pop(fut)
Pop(act, f) == SelectSeq(act, LAMBDA a : a.fut # f)

\* for fut in done: the future is popped from active and its row is recorded
HandleDone(f) ==
  /\ pc = "handle"
  /\ f \in done
  /\ LET a == CHOOSE x \in Range(active) : x.fut = f
         act == Pop(active, f)
     IN /\ active' = act
        /\ cur_worker' = a.worker_id
        /\ state' = SyncState(
                      [state EXCEPT !.completed = AppendCompleted(@, ResultRow(a))],
                      queue, act)
  /\ done' = done \ {f}
  /\ tasks' = [g \in DOMAIN tasks \ {f} |-> tasks[g]]
  /\ pc' = "resubmit"
  /\ UNCHANGED <<cancel, payload, stop_pc, concurrency, queue, next_worker, cancel_seen>>

\* a dispatcher that never refills a freed slot
MaySubmitNever(c, q) == FALSE

\* the test before submit_next, without the cancel signal
MaySubmitIgnoringCancel(c, q) == q # <<>>

\* not self._cancel.is_set() and queue
MaySubmit(c, q) == ~c /\ q # <<>>

\* if not self._cancel.is_set() and queue: submit_next(worker_id)
Resubmit ==
  /\ pc = "resubmit"
  /\ cancel_seen' = (cancel_seen \/ cancel)
  /\ IF MaySubmit(cancel, queue)
       THEN LET r == submit_next(queue, active, next_worker, tasks, cur_worker)
            IN /\ queue' = r[1]
               /\ active' = r[2]
               /\ next_worker' = r[3]
               /\ tasks' = r[4]
       ELSE UNCHANGED <<queue, active, next_worker, tasks>>
  /\ pc' = "handle"
  /\ UNCHANGED <<state, cancel, payload, stop_pc, concurrency, done, cur_worker>>

\* the end of the batch: queue and active are copied into the state
SyncAfterBatch ==
  /\ pc = "handle"
  /\ done = {}
  /\ state' = SyncState(state, queue, active)
  /\ pc' = "loop"
  /\ UNCHANGED <<cancel, payload, stop_pc, concurrency, queue, active,
                 next_worker, done, cur_worker, tasks, cancel_seen>>

\* the end of the with block: the pool waits for the tasks still running
PoolExit ==
  /\ pc = "exit"
  /\ \A f \in DOMAIN tasks : tasks[f].st # "running"
  /\ pc' = "finish"
  /\ UNCHANGED <<state, cancel, payload, stop_pc, concurrency, queue, active,
                 next_worker, done, cur_worker, tasks, cancel_seen>>

\* the final status of the run
Finish ==
  /\ pc = "finish"
  /\ state' = _update_metrics(
                [state EXCEPT !.status = IF cancel THEN "cancelled" ELSE "completed"])
  /\ pc' = "done"
  /\ UNCHANGED <<cancel, payload, stop_pc, concurrency, queue, active,
                 next_worker, done, cur_worker, tasks, cancel_seen>>

\* the steps of the web dispatcher; the other parts do not move
WebNext(P) ==
  \/ (\E p \in P : start(p)) /\ UNCHANGED nonWebVars
  \/ (stop_read) /\ UNCHANGED nonWebVars
  \/ (stop_set) /\ UNCHANGED nonWebVars
  \/ (Setup) /\ UNCHANGED nonWebVars
  \/ (SetupRaises) /\ UNCHANGED nonWebVars
  \/ (LoadQueue) /\ UNCHANGED nonWebVars
  \/ (CreatePool) /\ UNCHANGED nonWebVars
  \/ (\E f \in DOMAIN tasks : TaskReturns(f)) /\ UNCHANGED nonWebVars
  \/ (\E f \in DOMAIN tasks : TaskRaises(f)) /\ UNCHANGED nonWebVars
  \/ (LoopTest) /\ UNCHANGED nonWebVars
  \/ (Wait) /\ UNCHANGED nonWebVars
  \/ (\E f \in done : HandleDone(f)) /\ UNCHANGED nonWebVars
  \/ (Resubmit) /\ UNCHANGED nonWebVars
  \/ (SyncAfterBatch) /\ UNCHANGED nonWebVars
  \/ (PoolExit) /\ UNCHANGED nonWebVars
  \/ (Finish) /\ UNCHANGED nonWebVars

\* the variables of the other parts, without those of the request handlers
nonCtlVars == <<runnerVars, fanVars, verifierVars, demoVars, genVars>>

\* the steps of the web application: the request handlers and the dispatcher
ControlNext(P) ==
  \/ (\E p \in P : api_run_started(p)) /\ UNCHANGED nonCtlVars
  \/ (api_run_rejected) /\ UNCHANGED nonCtlVars
  \/ (api_stop_read) /\ UNCHANGED nonCtlVars
  \/ (api_stop_set) /\ UNCHANGED nonCtlVars
  \/ (Setup) /\ UNCHANGED nonWebVars
  \/ (SetupRaises) /\ UNCHANGED nonWebVars
  \/ (LoadQueue) /\ UNCHANGED nonWebVars
  \/ (CreatePool) /\ UNCHANGED nonWebVars
  \/ (\E f \in DOMAIN tasks : TaskReturns(f)) /\ UNCHANGED nonWebVars
  \/ (\E f \in DOMAIN tasks : TaskRaises(f)) /\ UNCHANGED nonWebVars
  \/ (LoopTest) /\ UNCHANGED nonWebVars
  \/ (Wait) /\ UNCHANGED nonWebVars
  \/ (\E f \in done : HandleDone(f)) /\ UNCHANGED nonWebVars
  \/ (Resubmit) /\ UNCHANGED nonWebVars
  \/ (SyncAfterBatch) /\ UNCHANGED nonWebVars
  \/ (PoolExit) /\ UNCHANGED nonWebVars
  \/ (Finish) /\ UNCHANGED nonWebVars

(***************************************************************************)
(* OpenHandsSRE (openhands_driver/agent_wrapper.py)                        *)
(***************************************************************************)
RISK_ORDER == [l \in {"UNKNOWN", "LOW", "MEDIUM", "HIGH"} |->
                 CASE l = "UNKNOWN" -> 0 [] l = "LOW" -> 1
                   [] l = "MEDIUM" -> 2 [] OTHER -> 3]

\* level.upper() of the level names of the model
Upper(level) == IF level = "connection reset" THEN "CONNECTION RESET" ELSE level

\* RISK_ORDER.get((level or "UNKNOWN").upper(), 0)
_risk_value(level) ==
  IF Upper(level) \in DOMAIN RISK_ORDER THEN RISK_ORDER[Upper(level)] ELSE 0

\* the risk levels an action event can carry
RiskLevels == {"UNKNOWN", "LOW", "MEDIUM", "HIGH"}

\* the values a caller can pass as max_security_risk: the level names, or any
\* other string (here one that holds a transient marker)
PolicyLevels == {"LOW", "MEDIUM", "HIGH", "connection reset"}

\* the tool names of action events: a terminal or file_editor action, another
\* named tool, or no tool name
ToolNames == {"terminal", "file_editor", "think", ""}

ActionEvent == [tool_name : {"terminal", "think", ""}, security_risk : RiskLevels]
                 \cup [tool_name : {"file_editor"}, security_risk : {"LOW"}]

\* the action events a session can end with: none, one, or two
SessionEvents ==
  {<<>>} \cup {<<e>> : e \in ActionEvent}
    \cup {<<e1, e2>> :
            e1 \in [tool_name : {"terminal", "think", ""}, security_risk : {"LOW", "HIGH"}],
            e2 \in [tool_name : {"terminal", ""}, security_risk : {"UNKNOWN", "MEDIUM"}]}

\* the transient markers of _is_transient_remote_error occur in the text
HasMarker(text) == text \in {"connection reset", "CONNECTION RESET", "marker"}

\* _is_transient_remote_error: a marker occurs in str(exc).lower(); the text of
\* an exception is its message and the strings formatted into it
_is_transient_remote_error(exc) == \E t \in exc.text : HasMarker(t)

\* the exceptions of the backend (imports, workspace, session): with or without
\* a transient marker in their text
BackendErrors ==
  {[kind |-> "backend", text |-> {"marker"}], [kind |-> "backend", text |-> {"other"}]}

\* the keys of baseline_events and optimized_events in _mock_plan
MockScenarios == {"stale_lockfile", "bad_env_config", "readiness_probe_fail",
                  "port_mismatch"}

\* the scenario_id argument of forward(): None, a known scenario, or another string
ScenarioArgs == {"None", "custom"} \cup MockScenarios

\* an error report, as the set of the keywords of _scenario_from_error that occur
\* in it
ErrorReports ==
  {{}, {"lockfile"}, {"missing env"}, {"readiness"}, {"5001"}, {"5001", "readiness"}}

\* keyword in text.lower(): the keyword occurs in the text, on its own or inside
\* a longer word of the text
Occurs(keyword, text) ==
  \/ keyword \in text
  \/ keyword = "lockfile" /\ "stale_lockfile" \in text
  \/ keyword = "readiness" /\ "readiness_probe_fail" \in text

\* _scenario_from_error without its default: a report with no keyword gives a
\* scenario that _mock_plan does not know
_scenario_from_error_no_default(report) ==
  IF Occurs("lockfile", report) THEN "stale_lockfile"
  ELSE IF Occurs("bad_env_config", report) \/ Occurs("missing env", report)
    THEN "bad_env_config"
  ELSE IF Occurs("readiness", report) THEN "readiness_probe_fail"
  ELSE IF Occurs("port_mismatch", report) \/ Occurs("5001", report)
    THEN "port_mismatch"
  ELSE "unknown"

_scenario_from_error(report) ==
  IF Occurs("stale_lockfile", report) \/ Occurs("lockfile", report)
    THEN "stale_lockfile"
  ELSE IF Occurs("bad_env_config", report) \/ Occurs("required_api_key", report)
          \/ Occurs("missing env", report)
    THEN "bad_env_config"
  ELSE IF Occurs("readiness_probe_fail", report) \/ Occurs("ready.flag", report)
          \/ Occurs("readiness", report)
    THEN "readiness_probe_fail"
  ELSE IF Occurs("port_mismatch", report) \/ Occurs("wrong port", report)
          \/ Occurs("5001", report)
    THEN "port_mismatch"
  ELSE "stale_lockfile"

\* resolved_scenario = scenario_id or self._scenario_from_error(error_report)
resolved_scenario(c) ==
  IF c.scenario_id # "None" THEN c.scenario_id ELSE _scenario_from_error(c.error_report)

\* f"{resolved_scenario}: {error_report}", the report given to _mock_run
MockReport(c) == {resolved_scenario(c)} \cup c.error_report

\* a strategy hint, as the set of the keywords of _is_optimized_for_scenario
\* that occur in it: BASELINE_HINT "Fix the bug." holds none of them
BASELINE_HINT == {}

\* OPTIMIZED_HINT names /tmp/service.lock, /tmp/ready.flag, the listening ports
\* and localhost:5000
OPTIMIZED_HINT == {"service.lock", "/tmp", "ready.flag", "port", "5000"}

\* the hints of the calls: the two hints of run_demo, a hint that names the
\* lockfile without /tmp, and a hint about the env config
Hints == {BASELINE_HINT, OPTIMIZED_HINT, {"lockfile"}, {"env", "config"}}

\* _is_optimized_for_scenario(strategy_hint, scenario_id)
_is_optimized_for_scenario(hint, scenario_id) ==
  IF scenario_id = "stale_lockfile"
    THEN (Occurs("lockfile", hint) \/ Occurs("service.lock", hint)) /\ Occurs("/tmp", hint)
  ELSE IF scenario_id = "bad_env_config"
    THEN Occurs("required_api_key", hint) \/ (Occurs("env", hint) /\ Occurs("config", hint))
  ELSE IF scenario_id = "readiness_probe_fail"
    THEN Occurs("ready.flag", hint) \/ Occurs("readiness", hint)
  ELSE IF scenario_id = "port_mismatch"
    THEN Occurs("port", hint) /\ (Occurs("5000", hint) \/ Occurs("5001", hint))
  ELSE FALSE

\* the arguments of a forward() call and the fields of the runner
Calls ==
  [dry_run : {FALSE}, real_max_retries : (0 - 1)..MaxRetries,
   use_mock_if_sdk_missing : BOOLEAN, max_security_risk : PolicyLevels,
   require_confirmation_for_risk : {"None", "LOW", "MEDIUM", "HIGH"},
   auto_confirm : BOOLEAN, scenario_id : {"port_mismatch"},
   error_report : {{"lockfile"}}, strategy_hint : {BASELINE_HINT}]
  \cup
  [dry_run : {TRUE}, real_max_retries : {2},
   use_mock_if_sdk_missing : BOOLEAN, max_security_risk : {"HIGH", "UNKNOWN"},
   require_confirmation_for_risk : {"None", "LOW"},
   auto_confirm : {FALSE},
   scenario_id : ScenarioArgs, error_report : ErrorReports,
   strategy_hint : Hints]

NoCall == [dry_run |-> TRUE, real_max_retries |-> 0, use_mock_if_sdk_missing |-> FALSE,
           max_security_risk |-> "HIGH", require_confirmation_for_risk |-> "None",
           auto_confirm |-> FALSE, scenario_id |-> "stale_lockfile",
           error_report |-> {}, strategy_hint |-> {}]

NoResult == [kind |-> "none"]

\* self.real_max_retries = max(0, real_max_retries)
real_max_retries == IF call.real_max_retries < 0 THEN 0 ELSE call.real_max_retries

\* max_attempts without the first attempt
max_attempts_retries_only == real_max_retries

\* max_attempts = self.real_max_retries + 1
max_attempts == real_max_retries + 1

\* baseline_events of _mock_plan, with target_url for the probe's address
baseline_events ==
  [scenario_id \in MockScenarios |->
     CASE scenario_id = "stale_lockfile" ->
            <<"curl -i target_url", "cat /app/app.py", "pip list", "ls -la /tmp",
              "rm -f /tmp/service.lock", "curl -i target_url">>
       [] scenario_id = "bad_env_config" ->
            <<"curl -i target_url", "cat /app/app.py", "printenv | sort",
              "export REQUIRED_API_KEY=demo-key", "curl -i target_url">>
       [] scenario_id = "readiness_probe_fail" ->
            <<"curl -i target_url", "cat /app/app.py", "ls -la /tmp",
              "touch /tmp/ready.flag", "curl -i target_url">>
       [] OTHER ->
            <<"curl -i target_url", "ss -lntp", "curl -i localhost:5001",
              "socat TCP-LISTEN:5000,fork TCP:127.0.0.1:5001", "curl -i target_url">>]

\* optimized_events of _mock_plan
optimized_events ==
  [scenario_id \in MockScenarios |->
     CASE scenario_id = "stale_lockfile" ->
            <<"ls -la /tmp | grep service.lock", "rm -f /tmp/service.lock",
              "curl -i target_url">>
       [] scenario_id = "bad_env_config" ->
            <<"printenv | grep REQUIRED_API_KEY", "export REQUIRED_API_KEY=demo-key",
              "curl -i target_url">>
       [] scenario_id = "readiness_probe_fail" ->
            <<"ls -la /tmp | grep ready.flag", "touch /tmp/ready.flag",
              "curl -i target_url">>
       [] OTHER ->
            <<"ss -lntp | grep 5001", "socat TCP-LISTEN:5000,fork TCP:127.0.0.1:5001",
              "curl -i target_url">>]

\* a plan that is the baseline plan whatever the hint
_mock_plan_baseline_only(scenario_id, optimized) == baseline_events[scenario_id]

\* _mock_plan(scenario_id, optimized, target_url): the events; service_up is True
_mock_plan(scenario_id, optimized) ==
  IF optimized THEN optimized_events[scenario_id] ELSE baseline_events[scenario_id]

\* _mock_plan raises KeyError for a scenario that is not a key of its tables
MockRaises(report) == _scenario_from_error(report) \notin MockScenarios

\* _mock_run(strategy_hint, error_report, target_url).to_dict(): the scenario is
\* derived from the report and the plan from the scenario and the hint
_mock_run(strategy_hint, report) ==
  LET sid == _scenario_from_error(report)
      plan == _mock_plan(sid, _is_optimized_for_scenario(strategy_hint, sid))
  IN [service_up |-> TRUE,
      step_count |-> Len(plan),
      events |-> plan,
      scenario_id |-> sid,
      tool_actions |-> [i \in DOMAIN plan |-> "terminal"],
      security_risks |-> [i \in DOMAIN plan |-> "LOW"],
      max_security_risk_seen |-> "LOW",
      confirmation_required |-> FALSE]

\* tool_actions: the non-empty tool names of the action events
ToolActions(ev) ==
  LET named == SelectSeq(ev, LAMBDA e : e.tool_name # "")
  IN [i \in DOMAIN named |-> named[i].tool_name]

\* terminal_or_file_actions
TerminalOrFileActions(ev) ==
  SelectSeq(ToolActions(ev), LAMBDA t : t \in {"terminal", "file_editor"})

\* security_risks: one entry per action event
SecurityRisks(ev) == [i \in DOMAIN ev |-> ev[i].security_risk]

\* max(security_risks, key=_risk_value): the first entry of the highest value
MaxRiskSeen(risks) ==
  IF risks = <<>> THEN "UNKNOWN"
  ELSE LET best == CHOOSE i \in DOMAIN risks :
                     /\ \A j \in DOMAIN risks : _risk_value(risks[j]) <= _risk_value(risks[i])
                     /\ \A j \in 1..(i - 1) : _risk_value(risks[j]) < _risk_value(risks[i])
       IN risks[best]

\* the comparison of the risk ceiling done on the names (as strings) and not on
\* their values: "HIGH" < "LOW" < "MEDIUM" < "UNKNOWN" < "connection reset"
ExceedsCeilingByName(seen, allowed) ==
  LET lex(l) == CASE l = "HIGH" -> 0 [] l = "LOW" -> 1 [] l = "MEDIUM" -> 2
                  [] l = "UNKNOWN" -> 3 [] OTHER -> 4
  IN lex(seen) > lex(allowed)

\* _risk_value(max_risk_seen) > _risk_value(max_security_risk)
ExceedsCeiling(seen, allowed) == _risk_value(seen) > _risk_value(allowed)

\* confirmation_required, computed from the first risk only
ConfirmationRequiredFirst(risks, threshold) ==
  threshold # "None" /\ risks # <<>> /\ _risk_value(risks[1]) >= _risk_value(Upper(threshold))

\* confirmation_required = any(_risk_value(r) >= _risk_value(threshold) ...)
ConfirmationRequired(risks, threshold) ==
  /\ threshold # "None"
  /\ \E i \in DOMAIN risks : _risk_value(risks[i]) >= _risk_value(Upper(threshold))

\* the checks of _run_real_once after the session has run: the exception they
\* raise, or "none"
Rejection(ev, c) ==
  IF TerminalOrFileActions(ev) = <<>>
    THEN [kind |-> "no_actions", text |-> {"Real run completed without terminal/file_editor tool actions."}]
  ELSE IF ExceedsCeiling(MaxRiskSeen(SecurityRisks(ev)), c.max_security_risk)
    THEN [kind |-> "risk",
          text |-> {"Security policy violation", MaxRiskSeen(SecurityRisks(ev)),
                    c.max_security_risk}]
  ELSE IF ConfirmationRequired(SecurityRisks(ev), c.require_confirmation_for_risk)
          /\ ~c.auto_confirm
    THEN [kind |-> "confirm",
          text |-> {"Confirmation required", Upper(c.require_confirmation_for_risk)}]
  ELSE [kind |-> "none", text |-> {}]

\* Max(1, n)
AtLeastOne(n) == IF n < 1 THEN 1 ELSE n

\* the OpenHandsResult of _run_real_once, as a dict
RealResult(ev, c) ==
  [service_up |-> FALSE,
   step_count |-> AtLeastOne(Len(TerminalOrFileActions(ev))),
   scenario_id |-> resolved_scenario(c),
   tool_actions |-> TerminalOrFileActions(ev),
   security_risks |-> SecurityRisks(ev),
   max_security_risk_seen |-> MaxRiskSeen(SecurityRisks(ev)),
   confirmation_required |->
     ConfirmationRequired(SecurityRisks(ev), c.require_confirmation_for_risk)]

RunnerInit ==
  /\ call = NoCall
  /\ fpc = "idle"
  /\ attempt = 0
  /\ last_exc = [kind |-> "none", text |-> {}]
  /\ events = <<>>
  /\ open_sessions = 0
  /\ opened = 0
  /\ sleeps = <<>>
  /\ outcomes = <<>>
  /\ result = NoResult

KeyError == [kind |-> "KeyError", text |-> {"KeyError"}]

\* if dry_run
IsDryRun(c) == c.dry_run

\* forward(): a dry run returns the simulated outcome; otherwise _run_real starts
forward(c) ==
  /\ fpc = "idle"
  /\ call' = c
  /\ attempt' = 0
  /\ last_exc' = [kind |-> "none", text |-> {}]
  /\ events' = <<>>
  /\ opened' = 0
  /\ sleeps' = <<>>
  /\ outcomes' = <<>>
  /\ IF IsDryRun(c)
       THEN /\ result' = IF MockRaises(MockReport(c))
                            THEN [kind |-> "raised", exc |-> KeyError]
                            ELSE [kind |-> "returned", fallback_used |-> FALSE,
                                  out |-> _mock_run(c.strategy_hint, MockReport(c))]
            /\ fpc' = "done"
       ELSE /\ result' = NoResult
            /\ fpc' = "loop"
  /\ UNCHANGED open_sessions

\* while attempt < max_attempts: attempt += 1; _run_real_once(...); after the
\* loop: assert last_exc is not None; raise last_exc
LoopAttempt ==
  /\ fpc = "loop"
  /\ IF attempt < max_attempts
       THEN /\ attempt' = attempt + 1
            /\ fpc' = "once"
            /\ UNCHANGED last_exc
       ELSE /\ fpc' = "raise"
            /\ last_exc' = IF last_exc.kind = "none"
                             THEN [kind |-> "assertion", text |-> {"AssertionError"}]
                             ELSE last_exc
            /\ UNCHANGED attempt
  /\ UNCHANGED <<call, events, open_sessions, opened, sleeps, outcomes, result>>

\* the re-raise test without the classification
ReraiseWhenExhausted(att, exc) == att >= max_attempts

\* if attempt >= max_attempts or not _is_transient_remote_error(exc): raise
Reraise(att, exc) == att >= max_attempts \/ ~_is_transient_remote_error(exc)

\* the except clause of _run_real: the retry decision for exception exc
Caught(exc) ==
  /\ last_exc' = exc
  /\ outcomes' = Append(outcomes, IF _is_transient_remote_error(exc)
                                    THEN "transient" ELSE "error")
  /\ fpc' = IF Reraise(attempt, exc) THEN "raise" ELSE "sleep"

\* _run_real_once raises before the Conversation exists (imports, workspace,
\* skills, agent)
OnceSetupRaises(exc) ==
  /\ fpc = "once"
  /\ Caught(exc)
  /\ UNCHANGED <<call, attempt, events, open_sessions, opened, sleeps, result>>

\* conv = Conversation(...)
OnceOpen ==
  /\ fpc = "once"
  /\ open_sessions' = open_sessions + 1
  /\ opened' = opened + 1
  /\ events' = <<>>
  /\ fpc' = "session"
  /\ UNCHANGED <<call, attempt, last_exc, sleeps, outcomes, result>>

\* a finally clause that does not close the session
CloseSkipped(n) == n

\* finally: conv.close(), whose own exceptions are swallowed: one session less
\* is open
Close(n) == n - 1

\* the positions in which a session is open: its run was started with
\* timeout=real_run_timeout_s, or without a timeout
SessionPositions == {"session", "session_untimed"}

\* try: conv.run(timeout=self.real_run_timeout_s) except TypeError: conv.run()
\* the run raises TypeError and the session is run again without a timeout
RunWithoutTimeout ==
  /\ fpc = "session"
  /\ fpc' = "session_untimed"
  /\ UNCHANGED <<call, attempt, last_exc, events, open_sessions, opened, sleeps,
                 outcomes, result>>

\* conv.send_message or conv.run raises (a backend error, a timeout); finally:
\* conv.close()
SessionRaises(exc) ==
  /\ fpc \in SessionPositions
  /\ Caught(exc)
  /\ open_sessions' = Close(open_sessions)
  /\ UNCHANGED <<call, attempt, events, opened, sleeps, result>>

\* conv.run returns with the action events ev; the checks run; finally:
\* conv.close()
SessionCompletes(ev) ==
  /\ fpc \in SessionPositions
  /\ events' = ev
  /\ open_sessions' = Close(open_sessions)
  /\ IF Rejection(ev, call).kind # "none"
       THEN /\ Caught(Rejection(ev, call))
            /\ UNCHANGED result
       ELSE /\ outcomes' = Append(outcomes, "ok")
            /\ result' = [kind |-> "returned", fallback_used |-> FALSE,
                          out |-> RealResult(ev, call)]
            /\ fpc' = "done"
            /\ UNCHANGED last_exc
  /\ UNCHANGED <<call, attempt, opened, sleeps>>

\* the back-off without its cap of 10 seconds
BackoffUncapped(a) == 3 * a

\* the back-off before the retry after the failed attempt a
Backoff(a) == IF 3 * a < 10 THEN 3 * a ELSE 10

\* time.sleep(min(3.0 * attempt, 10.0))
Sleep ==
  /\ fpc = "sleep"
  /\ sleeps' = Append(sleeps, Backoff(attempt))
  /\ fpc' = "loop"
  /\ UNCHANGED <<call, attempt, last_exc, events, open_sessions, opened, outcomes, result>>

\* the fallback dict without its fallback_reason
FallbackResultNoReason(c, exc) ==
  [kind |-> "returned", fallback_used |-> TRUE,
   out |-> _mock_run(c.strategy_hint, MockReport(c))]

\* fallback = _mock_run(...).to_dict(); fallback["fallback_used"] = True;
\* fallback["fallback_reason"] = str(exc)
FallbackResult(c, exc) ==
  [kind |-> "returned", fallback_used |-> TRUE, fallback_reason |-> exc,
   out |-> _mock_run(c.strategy_hint, MockReport(c))]

\* the except clause of forward(): the fallback, or the exception propagates
ForwardExcept ==
  /\ fpc = "raise"
  /\ result' = IF ~call.use_mock_if_sdk_missing
                 THEN [kind |-> "raised", exc |-> last_exc]
               ELSE IF MockRaises(MockReport(call))
                 THEN [kind |-> "raised", exc |-> KeyError]
               ELSE FallbackResult(call, last_exc)
  /\ fpc' = "done"
  /\ UNCHANGED <<call, attempt, last_exc, events, open_sessions, opened, sleeps, outcomes>>

\* the caller has taken what forward() returned or raised; the runner keeps
\* nothing of the call
ForwardReturns ==
  /\ fpc = "done"
  /\ fpc' = "idle"
  /\ call' = NoCall
  /\ attempt' = 0
  /\ last_exc' = [kind |-> "none", text |-> {}]
  /\ events' = <<>>
  /\ opened' = 0
  /\ sleeps' = <<>>
  /\ outcomes' = <<>>
  /\ result' = NoResult
  /\ UNCHANGED open_sessions

\* the steps of a forward() call; the other parts do not move
RunnerNext ==
  \/ (fpc = "idle" /\ \E c \in Calls : forward(c)) /\ UNCHANGED nonRunnerVars
  \/ (LoopAttempt) /\ UNCHANGED nonRunnerVars
  \/ (\E exc \in BackendErrors : OnceSetupRaises(exc)) /\ UNCHANGED nonRunnerVars
  \/ (OnceOpen) /\ UNCHANGED nonRunnerVars
  \/ (RunWithoutTimeout) /\ UNCHANGED nonRunnerVars
  \/ (\E exc \in BackendErrors : SessionRaises(exc)) /\ UNCHANGED nonRunnerVars
  \/ (\E ev \in SessionEvents : SessionCompletes(ev)) /\ UNCHANGED nonRunnerVars
  \/ (Sleep) /\ UNCHANGED nonRunnerVars
  \/ (ForwardExcept) /\ UNCHANGED nonRunnerVars
  \/ ForwardReturns /\ UNCHANGED nonRunnerVars

(***************************************************************************)
(* scripts/fanout_sre.py, continuous-arrival mode                          *)
(***************************************************************************)
\* the command lines: --continuous with a concurrency, --simulate or not,
\* --allow-fallback or not
ArgSets ==
  [concurrency : 0..MaxConcurrency, simulate : BOOLEAN, allow_fallback : BOOLEAN]

NoArgs == [concurrency |-> 1, simulate |-> TRUE, allow_fallback |-> FALSE]

FanInit ==
  /\ args = NoArgs
  /\ fan_pc = "idle"
  /\ window_open = FALSE
  /\ next_incident_id = 1
  /\ fan_active = {}
  /\ work_queue = <<>>
  /\ running = {}
  /\ finished = <<>>
  /\ fan_done = {}
  /\ fan_completed = <<>>

\* main() up to the continuous loop: ThreadPoolExecutor(max_workers=concurrency)
\* raises ValueError unless concurrency > 0; end_time = start + duration_s
main(a) ==
  /\ fan_pc = "idle"
  /\ args' = a
  /\ IF a.concurrency <= 0
       THEN fan_pc' = "crashed" /\ UNCHANGED window_open
       ELSE fan_pc' = "top" /\ window_open' \in BOOLEAN
  /\ UNCHANGED <<next_incident_id, fan_active, work_queue, running, finished,
                 fan_done, fan_completed>>

\* the clock passes end_time
WindowCloses ==
  /\ window_open
  /\ window_open' = FALSE
  /\ UNCHANGED <<args, fan_pc, next_incident_id, fan_active, work_queue, running,
                 finished, fan_done, fan_completed>>

\* a loop that goes on only while the arrival window is open
LoopContinuesWindowOnly(open, act) == open

\* the loop condition: time.time() < end_time or active
LoopContinues(open, act) == open \/ act # {}

\* while time.time() < end_time or active; after the loop the pool is shut down
\* and the final results are printed
FanLoopTest ==
  /\ fan_pc = "top"
  /\ fan_pc' = IF LoopContinues(window_open, fan_active) THEN "arrive" ELSE "final"
  /\ UNCHANGED <<args, window_open, next_incident_id, fan_active, work_queue,
                 running, finished, fan_done, fan_completed>>

\* generate_incident(idx)
generate_incident(idx) == idx

\* submit_one(incident): ex.submit(...) puts a work item on the executor's queue;
\* active[fut] = incident
submit_one(incident) ==
  /\ work_queue' = Append(work_queue, incident)
  /\ fan_active' = fan_active \cup {incident}

\* while now >= next_arrival and now < end_time: generate an incident and submit it
Arrive ==
  /\ fan_pc = "arrive"
  /\ window_open
  /\ next_incident_id <= MaxIncidents
  /\ submit_one(generate_incident(next_incident_id))
  /\ next_incident_id' = next_incident_id + 1
  /\ UNCHANGED <<args, fan_pc, window_open, running, finished, fan_done,
                 fan_completed>>

\* the arrival loop ends; if not active: time.sleep(0.05); continue
ArriveEnd ==
  /\ fan_pc = "arrive"
  /\ fan_pc' = IF fan_active = {} THEN "top" ELSE "wait"
  /\ UNCHANGED <<args, window_open, next_incident_id, fan_active, work_queue,
                 running, finished, fan_done, fan_completed>>

\* a thread of the pool takes the next work item, with no limit on the threads
ExecutorHasThreadUnbounded(run, max_workers) == TRUE

\* ThreadPoolExecutor(max_workers=args.concurrency): at most max_workers threads
ExecutorHasThread(run, max_workers) == Cardinality(run) < max_workers

\* a worker thread takes the oldest work item and starts process_incident
WorkerStart ==
  /\ fan_pc \notin {"idle", "crashed"}
  /\ work_queue # <<>>
  /\ ExecutorHasThread(running, args.concurrency)
  /\ running' = running \cup {Head(work_queue)}
  /\ work_queue' = Tail(work_queue)
  /\ UNCHANGED <<args, fan_pc, window_open, next_incident_id, fan_active,
                 finished, fan_done, fan_completed>>

\* what process_incident ends with: the row of the simulated outcome in a dry
\* run; in real mode the row of the Real outcome, of the fallback outcome when
\* fallback is allowed, or the exception of runner.forward when it is not
ProcessResults(incident) ==
  IF args.simulate
    THEN {[kind |-> "row", incident_id |-> incident, service_up |-> TRUE,
           step_count |-> 3, fallback_used |-> FALSE]}
    ELSE {[kind |-> "row", incident_id |-> incident, service_up |-> FALSE,
           step_count |-> 1, fallback_used |-> FALSE]}
         \cup
         (IF args.allow_fallback
            THEN {[kind |-> "row", incident_id |-> incident, service_up |-> TRUE,
                   step_count |-> 3, fallback_used |-> TRUE]}
            ELSE {[kind |-> "raised", incident_id |-> incident]})

\* a worker thread finishes process_incident: the future is done
WorkerFinish(incident) ==
  /\ incident \in running
  /\ running' = running \ {incident}
  /\ \E r \in ProcessResults(incident) : finished' = Append(finished, r)
  /\ UNCHANGED <<args, fan_pc, window_open, next_incident_id, fan_active,
                 work_queue, fan_done, fan_completed>>

FinishedIds == {finished[k].incident_id : k \in DOMAIN finished}

\* done, _ = wait(active.keys(), timeout=0.2, return_when=FIRST_COMPLETED): the
\* finished futures of active; none when the timeout passes first
FanWait ==
  /\ fan_pc = "wait"
  /\ fan_done' = fan_active \cap FinishedIds
  /\ fan_pc' = "handle"
  /\ UNCHANGED <<args, window_open, next_incident_id, fan_active, work_queue,
                 running, finished, fan_completed>>

\* the row appended for a future that raised
FanErrorRow(incident) ==
  [incident_id |-> incident, service_up |-> FALSE, step_count |-> ErrorStepCount,
   fallback_used |-> FALSE, latency_s |-> "0.0", error |-> TRUE]

\* res = fut.result(), or the error row
FanResultRow(incident) ==
  LET r == finished[CHOOSE k \in DOMAIN finished : finished[k].incident_id = incident]
  IN IF r.kind = "raised"
       THEN FanErrorRow(incident)
       ELSE [incident_id |-> incident, service_up |-> r.service_up,
             step_count |-> r.step_count, fallback_used |-> r.fallback_used,
             latency_s |-> "measured", error |-> FALSE]

\* for fut in done: inc = active.pop(fut); completed.append(res)
FanHandleDone(incident) ==
  /\ fan_pc = "handle"
  /\ incident \in fan_done
  /\ fan_done' = fan_done \ {incident}
  /\ fan_active' = fan_active \ {incident}
  /\ fan_completed' = Append(fan_completed, FanResultRow(incident))
  /\ UNCHANGED <<args, fan_pc, window_open, next_incident_id, work_queue, running,
                 finished>>

\* the for loop over done ends; the scorecard is printed when due
FanBatchEnd ==
  /\ fan_pc = "handle"
  /\ fan_done = {}
  /\ fan_pc' = "top"
  /\ UNCHANGED <<args, window_open, next_incident_id, fan_active, work_queue,
                 running, finished, fan_done, fan_completed>>

FanNext ==
  \/ (\E a \in ArgSets : main(a)) /\ UNCHANGED nonFanVars
  \/ WindowCloses /\ UNCHANGED nonFanVars
  \/ FanLoopTest /\ UNCHANGED nonFanVars
  \/ Arrive /\ UNCHANGED nonFanVars
  \/ ArriveEnd /\ UNCHANGED nonFanVars
  \/ WorkerStart /\ UNCHANGED nonFanVars
  \/ (\E i \in 1..MaxIncidents : WorkerFinish(i)) /\ UNCHANGED nonFanVars
  \/ FanWait /\ UNCHANGED nonFanVars
  \/ (\E i \in 1..MaxIncidents : FanHandleDone(i)) /\ UNCHANGED nonFanVars
  \/ FanBatchEnd /\ UNCHANGED nonFanVars

(***************************************************************************)
(* run_demo.py: verify_stable_endpoint                                     *)
(***************************************************************************)
\* the arguments main() passes: max(1, --verify-consecutive-successes),
\* max(1, --verify-max-attempts), expected_scenario = --scenario
VerifyArgs ==
  [consecutive_successes : 1..(MaxPolls + 1), max_attempts : 1..MaxPolls,
   expected_scenario : {"stale_lockfile"}]

NoVerifyArgs ==
  [consecutive_successes |-> 1, max_attempts |-> 1, expected_scenario |-> "stale_lockfile"]

\* the body of a response: a JSON object with a status and a scenario, JSON
\* that is not an object (a list, null, a number), or text that is not JSON
Bodies ==
  [kind : {"object"}, status : {"ok", "error"},
   scenario : {"stale_lockfile", "port_mismatch"}]
  \cup {[kind |-> "nonobject"], [kind |-> "invalid"]}

OkBody == [kind |-> "object", status |-> "ok", scenario |-> "stale_lockfile"]

\* what _probe_http_response can observe: a 200 with a JSON content type and
\* any body, a 200 with another or no content type, a 500, or no response
Responses ==
  [http_code : {"200"}, content_type : {"application/json"}, body : Bodies]
  \cup {[http_code |-> "200", content_type |-> "text/html", body |-> OkBody],
        [http_code |-> "200", content_type |-> "", body |-> OkBody],
        [http_code |-> "500", content_type |-> "application/json", body |-> OkBody],
        [http_code |-> "000", content_type |-> "", body |-> [kind |-> "invalid"]]}

NoVerification == [kind |-> "none"]

VerifierInit ==
  /\ vargs = NoVerifyArgs
  /\ vpc = "idle"
  /\ polled = <<>>
  /\ successes = 0
  /\ attempts = <<>>
  /\ last_failure = ""
  /\ verification = NoVerification

\* verify_stable_endpoint(...): successes = 0; attempts = []; last_failure = ""
verify_stable_endpoint(a) ==
  /\ vpc = "idle"
  /\ vargs' = a
  /\ vpc' = "poll"
  /\ polled' = <<>>
  /\ successes' = 0
  /\ attempts' = <<>>
  /\ last_failure' = ""
  /\ verification' = NoVerification

\* payload.get(...) on JSON that is not an object raises AttributeError
PayloadGetRaises(obs) ==
  /\ obs.http_code = "200"
  /\ obs.content_type = "application/json"
  /\ obs.body.kind = "nonobject"

\* the reason of one poll; "" for a poll that succeeds
Reason(obs, expected_scenario) ==
  IF obs.http_code # "200" THEN "http code"
  ELSE IF obs.content_type # "application/json" THEN "unexpected content-type"
  ELSE IF obs.body.kind = "invalid" THEN "invalid JSON body"
  ELSE IF obs.body.status # "ok" THEN "unexpected status field"
  ELSE IF obs.body.scenario # expected_scenario THEN "unexpected scenario field"
  ELSE ""

\* the streak after a failed poll, left as it was
StreakAfterFailureKept(n) == n

\* successes = 0
StreakAfterFailure(n) == 0

\* the dict returned by verify_stable_endpoint
VerificationResult(verified, att, failure) ==
  [kind |-> "returned", verified |-> verified, attempts |-> att,
   consecutive_target |-> vargs.consecutive_successes, last_failure |-> failure]

\* one iteration of for _ in range(max_attempts): probe, classify, count
Poll(obs) ==
  /\ vpc = "poll"
  /\ Len(attempts) < vargs.max_attempts
  /\ polled' = Append(polled, obs)
  /\ attempts' = Append(attempts, obs.http_code)
  /\ IF PayloadGetRaises(obs)
       THEN /\ verification' = [kind |-> "raised", exc |-> "AttributeError"]
            /\ vpc' = "done"
            /\ UNCHANGED <<successes, last_failure>>
     ELSE IF Reason(obs, vargs.expected_scenario) = ""
       THEN /\ successes' = successes + 1
            /\ UNCHANGED last_failure
            /\ IF successes + 1 >= vargs.consecutive_successes
                 THEN /\ verification' =
                           VerificationResult(TRUE, Append(attempts, obs.http_code), "")
                      /\ vpc' = "done"
                 ELSE UNCHANGED <<verification, vpc>>
     ELSE /\ successes' = StreakAfterFailure(successes)
          /\ last_failure' = Reason(obs, vargs.expected_scenario)
          /\ UNCHANGED <<verification, vpc>>
  /\ UNCHANGED vargs

\* the loop ends after max_attempts polls: verified False
PollsExhausted ==
  /\ vpc = "poll"
  /\ Len(attempts) >= vargs.max_attempts
  /\ verification' = VerificationResult(FALSE, attempts, last_failure)
  /\ vpc' = "done"
  /\ UNCHANGED <<vargs, polled, successes, attempts, last_failure>>

VerifierNext ==
  \/ (vpc = "idle" /\ \E a \in VerifyArgs : verify_stable_endpoint(a))
       /\ UNCHANGED nonVerifierVars
  \/ (\E obs \in Responses : Poll(obs)) /\ UNCHANGED nonVerifierVars
  \/ PollsExhausted /\ UNCHANGED nonVerifierVars

(***************************************************************************)
(* run_demo.py: main                                                       *)
(***************************************************************************)
\* the command lines: --simulate, --allow-fallback, the verifier options, and
\* whether the container identity check is made (--target-container given and
\* the check not disabled)
DemoArgs ==
  [simulate : BOOLEAN, allow_fallback : BOOLEAN,
   verify_consecutive_successes : {0, 2}, verify_max_attempts : {0, 2},
   identity_check : BOOLEAN]

NoDemoArgs ==
  [simulate |-> TRUE, allow_fallback |-> FALSE, verify_consecutive_successes |-> 2,
   verify_max_attempts |-> 2, identity_check |-> FALSE]

\* what inspect_target_container reports
Inspections ==
  {[exists |-> TRUE, running |-> TRUE, image_matches |-> TRUE],
   [exists |-> TRUE, running |-> FALSE, image_matches |-> TRUE],
   [exists |-> TRUE, running |-> TRUE, image_matches |-> FALSE],
   [exists |-> FALSE, running |-> FALSE, image_matches |-> FALSE]}

NoIdentity == [kind |-> "none"]

DemoInit ==
  /\ dargs = NoDemoArgs
  /\ dpc = "idle"
  /\ demo_result = NoResult
  /\ container_identity = NoIdentity

\* the forward() call of main()
DemoCall(a) ==
  [dry_run |-> a.simulate, real_max_retries |-> 1,
   use_mock_if_sdk_missing |-> a.allow_fallback, max_security_risk |-> "HIGH",
   require_confirmation_for_risk |-> "None", auto_confirm |-> FALSE,
   scenario_id |-> "stale_lockfile", error_report |-> {"lockfile"},
   strategy_hint |-> BASELINE_HINT]

\* max(1, n)
AtLeast1(n) == IF n < 1 THEN 1 ELSE n

\* the verify_stable_endpoint call of main()
DemoVerifyArgs(a) ==
  [consecutive_successes |-> AtLeast1(a.verify_consecutive_successes),
   max_attempts |-> AtLeast1(a.verify_max_attempts),
   expected_scenario |-> "stale_lockfile"]

\* main() up to result = runner.forward(...)
DemoStart(a) ==
  /\ dpc = "idle"
  /\ dargs' = a
  /\ dpc' = "forward"
  /\ forward(DemoCall(a))
  /\ UNCHANGED <<demo_result, container_identity>>

\* forward() raised: main() ends with the exception
DemoForwardRaised ==
  /\ dpc = "forward"
  /\ fpc = "done"
  /\ result.kind = "raised"
  /\ dpc' = "crashed"
  /\ ForwardReturns
  /\ UNCHANGED <<dargs, demo_result, container_identity, verifierVars>>

\* forward() returned; if not args.simulate: verify_stable_endpoint(...)
DemoForwardReturned ==
  /\ dpc = "forward"
  /\ fpc = "done"
  /\ result.kind = "returned"
  /\ demo_result' = result
  /\ ForwardReturns
  /\ IF dargs.simulate
       THEN dpc' = "done" /\ UNCHANGED verifierVars
       ELSE dpc' = "verify" /\ verify_stable_endpoint(DemoVerifyArgs(dargs))
  /\ UNCHANGED <<dargs, container_identity>>

\* verify_stable_endpoint raised: main() ends with the exception
DemoVerifyRaised ==
  /\ dpc = "verify"
  /\ vpc = "done"
  /\ verification.kind = "raised"
  /\ dpc' = "crashed"
  /\ UNCHANGED <<dargs, demo_result, container_identity, verifierVars>>

\* the reported service_up, true when the runner said so
ServiceUpFromRunnerToo(runner_up, verified) == runner_up \/ verified

\* result["service_up"] = bool(verification["verified"])
ServiceUp(runner_up, verified) == verified

\* an identity check that only asks whether the container exists
IdentityVerifiedExistsOnly(inspected) == inspected.exists

\* container_identity["verified"]: the container exists, is running and its
\* image is the expected one
IdentityVerified(inspected) ==
  inspected.exists /\ inspected.running /\ (inspected.exists /\ inspected.image_matches)

\* the container identity check and result["service_up"]
DemoVerified(inspected) ==
  /\ dpc = "verify"
  /\ vpc = "done"
  /\ verification.kind = "returned"
  /\ LET identity == IdentityVerified(inspected)
         verified == IF dargs.identity_check
                       THEN verification.verified /\ identity
                       ELSE verification.verified
     IN /\ container_identity' =
             IF dargs.identity_check
               THEN [kind |-> "checked", verified |-> identity,
                     exists |-> inspected.exists, running |-> inspected.running,
                     image_matches |-> inspected.image_matches]
               ELSE NoIdentity
        /\ verification' = [verification EXCEPT !.verified = verified]
        /\ demo_result' =
             [demo_result EXCEPT
                !.out.service_up = ServiceUp(demo_result.out.service_up, verified)]
  /\ dpc' = "done"
  /\ UNCHANGED <<dargs, vargs, vpc, polled, successes, attempts, last_failure>>

DemoNext ==
  \/ (\E a \in DemoArgs : DemoStart(a))
       /\ UNCHANGED <<genVars, ctlVars, webVars, fanVars, verifierVars>>
  \/ (dpc = "forward" /\ LoopAttempt) /\ UNCHANGED nonRunnerVars
  \/ (dpc = "forward" /\ \E exc \in BackendErrors : OnceSetupRaises(exc))
       /\ UNCHANGED nonRunnerVars
  \/ (dpc = "forward" /\ OnceOpen) /\ UNCHANGED nonRunnerVars
  \/ (dpc = "forward" /\ RunWithoutTimeout) /\ UNCHANGED nonRunnerVars
  \/ (dpc = "forward" /\ \E exc \in BackendErrors : SessionRaises(exc))
       /\ UNCHANGED nonRunnerVars
  \/ (dpc = "forward" /\ \E ev \in SessionEvents : SessionCompletes(ev))
       /\ UNCHANGED nonRunnerVars
  \/ (dpc = "forward" /\ Sleep) /\ UNCHANGED nonRunnerVars
  \/ (dpc = "forward" /\ ForwardExcept) /\ UNCHANGED nonRunnerVars
  \/ DemoForwardRaised /\ UNCHANGED <<genVars, ctlVars, webVars, fanVars>>
  \/ DemoForwardReturned /\ UNCHANGED <<genVars, ctlVars, webVars, fanVars>>
  \/ (dpc = "verify" /\ \E obs \in Responses : Poll(obs)) /\ UNCHANGED nonVerifierVars
  \/ (dpc = "verify" /\ PollsExhausted) /\ UNCHANGED nonVerifierVars
  \/ DemoVerifyRaised /\ UNCHANGED <<genVars, ctlVars, webVars, fanVars, runnerVars>>
  \/ (\E inspected \in Inspections : DemoVerified(inspected))
       /\ UNCHANGED <<genVars, ctlVars, webVars, fanVars, runnerVars>>

(***************************************************************************)
(* generate_incidents (scripts/fanout_orchestrated_remote.py)              *)
(***************************************************************************)
\* the calls generate_incidents(total, seed)
GenArgs == [total : 0..MaxIncidents, seed : 1..MaxSeed]

NoGenArgs == [total |-> 0, seed |-> 1]

GenInit ==
  /\ gargs = NoGenArgs
  /\ gpc = "idle"
  /\ rng = [seed |-> 0, pos |-> 0]
  /\ now = 0
  /\ rows = <<>>
  /\ generations = <<>>

\* a generator that does not seed the random module
ReseedMissing(r, seed) == r

\* random.seed(seed): the stream of the seed, from its start
Reseed(r, seed) == [seed |-> seed, pos |-> 0]

\* generate_incidents(total, seed), up to the loop; two calls are made
GenCall(a) ==
  /\ gpc = "idle"
  /\ Len(generations) < 2
  /\ gargs' = a
  /\ rng' = Reseed(rng, a.seed)
  /\ rows' = <<>>
  /\ gpc' = "loop"
  /\ UNCHANGED <<now, generations>>

\* the clock advances
Tick ==
  /\ now < MaxClock
  /\ now' = now + 1
  /\ UNCHANGED <<gargs, gpc, rng, rows, generations>>

\* rows.append(Incident(id, random.choice(...), random.choices(...)[0],
\* time.time())): two draws of the stream and a reading of the clock
GenAppend ==
  /\ gpc = "loop"
  /\ Len(rows) < gargs.total
  /\ rows' = Append(rows,
       [id |-> Len(rows) + 1,
        scenario_id |->
          SCENARIO_ERRORS[(RandomDraw(rng.seed, rng.pos + 1) % Len(SCENARIO_ERRORS)) + 1],
        severity |-> WeightedSeverity(RandomDraw(rng.seed, rng.pos + 2)),
        created_at |-> now])
  /\ rng' = [rng EXCEPT !.pos = @ + 2]
  /\ UNCHANGED <<gargs, gpc, now, generations>>

\* rows.sort(key=SEVERITY_RANK[severity], reverse=True); return rows
GenReturn ==
  /\ gpc = "loop"
  /\ Len(rows) = gargs.total
  /\ generations' = Append(generations,
                           [total |-> gargs.total, seed |-> gargs.seed,
                            rows |-> SortBySeverity(rows)])
  /\ gpc' = "idle"
  /\ UNCHANGED <<gargs, rng, now, rows>>

GenNext ==
  \/ (\E a \in GenArgs : GenCall(a)) /\ UNCHANGED nonGenVars
  \/ Tick /\ UNCHANGED nonGenVars
  \/ GenAppend /\ UNCHANGED nonGenVars
  \/ GenReturn /\ UNCHANGED nonGenVars

(***************************************************************************)
(* Specifications                                                          *)
(***************************************************************************)
Init ==
  WebInit /\ RunnerInit /\ FanInit /\ VerifierInit /\ DemoInit /\ GenInit /\ CtlInit

\* the web dispatcher
Next == WebNext(Payloads)

\* the _run_job thread is scheduled until it ends, and every Runner call
\* terminates: each step of the thread and of a running task is taken when it
\* stays enabled; requests to start or stop a run may or may not arrive
FairWeb ==
  /\ WF_webVars(Setup)
  /\ WF_webVars(LoadQueue)
  /\ WF_webVars(CreatePool)
  /\ WF_webVars(\E f \in DOMAIN tasks : TaskReturns(f) \/ TaskRaises(f))
  /\ WF_webVars(LoopTest)
  /\ WF_webVars(Wait)
  /\ WF_webVars(\E f \in done : HandleDone(f))
  /\ WF_webVars(Resubmit)
  /\ WF_webVars(SyncAfterBatch)
  /\ WF_webVars(PoolExit)
  /\ WF_webVars(Finish)

SpecFair == Init /\ [][Next]_vars /\ FairWeb

\* the web application with its request handlers
NextControl == ControlNext(Payloads)

SpecControl == Init /\ [][NextControl]_vars

Spec == Init /\ [][Next]_vars

\* the web dispatcher with runs that overflow the completed window
NextLarge == WebNext(LargePayloads)

SpecLarge == Init /\ [][NextLarge]_vars

\* one runner and its forward() calls
NextRunner == RunnerNext

SpecRunner == Init /\ [][NextRunner]_vars

\* fanout_sre.py --continuous
NextContinuous == FanNext

SpecContinuous == Init /\ [][NextContinuous]_vars

\* continuous-arrival mode with its scheduling: the clock advances, so the
\* window closes; the main thread keeps stepping; the pool's threads take work
\* while there is some; every Runner call terminates
FairContinuous ==
  /\ WF_fanVars(WindowCloses)
  /\ WF_fanVars(FanLoopTest)
  /\ WF_fanVars(ArriveEnd)
  /\ WF_fanVars(FanWait)
  /\ WF_fanVars(\E i \in 1..MaxIncidents : FanHandleDone(i))
  /\ WF_fanVars(FanBatchEnd)
  /\ WF_fanVars(WorkerStart)
  /\ WF_fanVars(\E i \in 1..MaxIncidents : WorkerFinish(i))

SpecContinuousFair == Init /\ [][NextContinuous]_vars /\ FairContinuous

\* verify_stable_endpoint
NextVerifier == VerifierNext

SpecVerifier == Init /\ [][NextVerifier]_vars

\* run_demo.py
NextDemo == DemoNext

SpecDemo == Init /\ [][NextDemo]_vars

\* the incident generator
NextGenerator == GenNext

SpecGenerator == Init /\ [][NextGenerator]_vars

(***************************************************************************)
(* Properties of the web dispatcher                                        *)
(***************************************************************************)
\* the queue has been loaded into the state (LoadQueue has run in this run)
QueueLoaded ==
  /\ pc \notin {"none", "setup", "load"}
  /\ ~(state.status = "failed" /\ state.error \in {"config", "setup"})

GeneratedIds == 1..payload.incidents

\* the incidents held by the dispatcher's own collections
QueueIds == {queue[k].id : k \in DOMAIN queue}
ActiveIds == {active[k].inc.id : k \in DOMAIN active}
CompletedIds == {state.completed[k].incident_id : k \in DOMAIN state.completed}

\* the incidents held by a snapshot returned by get_state
SnapQueueIds == {get_state.queue[k].id : k \in DOMAIN get_state.queue}
SnapActiveIds == {get_state.active[k].incident_id : k \in DOMAIN get_state.active}
SnapCompletedIds ==
  {get_state.completed[k].incident_id : k \in DOMAIN get_state.completed}

\* no incident is in two of the three sets, nor twice in one collection
Disjoint3(q, a, c, nq, na, nc) == Cardinality(q \cup a \cup c) = nq + na + nc

OwnDisjoint ==
  Disjoint3(QueueIds, ActiveIds, CompletedIds,
            Len(queue), Len(active), Len(state.completed))
SnapDisjoint ==
  Disjoint3(SnapQueueIds, SnapActiveIds, SnapCompletedIds,
            Len(get_state.queue), Len(get_state.active), Len(get_state.completed))

\* the collections hold generated incidents only
OwnGenerated ==
  QueueIds \subseteq GeneratedIds /\ ActiveIds \subseteq GeneratedIds
    /\ CompletedIds \subseteq GeneratedIds
SnapGenerated ==
  SnapQueueIds \subseteq GeneratedIds /\ SnapActiveIds \subseteq GeneratedIds
    /\ SnapCompletedIds \subseteq GeneratedIds

\* the number of generated incidents that are in none of the three collections
\* (the collections being disjoint sets of generated incidents)
OwnNowhere ==
  payload.incidents - (Len(queue) + Len(active) + Len(state.completed))
SnapNowhere ==
  payload.incidents
    - (Len(get_state.queue) + Len(get_state.active) + Len(get_state.completed))

\* C1: in one-shot mode, when a run that was never cancelled reports status
\* "completed", the completed count equals the total and the queue and the
\* active set are empty, for every incident count.
C1_CompletedEqualsTotal ==
  state.status = "completed" =>
    /\ get_state.summary.completed = get_state.summary.total
    /\ get_state.summary.total = payload.incidents
    /\ get_state.queue = <<>> /\ get_state.active = <<>>
    /\ queue = <<>> /\ active = <<>>

\* C2: at every state of the dispatcher loop and in every snapshot the number
\* of active incidents is at most the concurrency.
C2_ActiveAtMostConcurrency ==
  /\ Len(active) <= concurrency
  /\ Len(get_state.active) <= concurrency
  /\ get_state.summary.active <= concurrency
  /\ concurrency <= payload.concurrency

C2_Witness ==
  /\ concurrency >= 2
  /\ Len(active) = concurrency
  /\ Len(get_state.active) = concurrency
  /\ get_state.completed # <<>>

\* C4 as stated: once the queue has been loaded every generated incident is in
\* exactly one of queue, active and completed, in the dispatcher's collections
\* and in every snapshot, for every incident count.
C4_ExactlyOnePlace ==
  QueueLoaded =>
    /\ OwnDisjoint /\ SnapDisjoint
    /\ OwnGenerated /\ SnapGenerated
    /\ OwnNowhere = 0 /\ SnapNowhere = 0

\* C4 as amended: every generated incident is in at most one of queue, active
\* and completed, and it is in none of them only when the completed window is
\* full (its record was evicted).
C4_AtMostOnePlace ==
  QueueLoaded =>
    /\ OwnDisjoint /\ SnapDisjoint
    /\ OwnGenerated /\ SnapGenerated
    /\ OwnNowhere # 0 => Len(state.completed) = CompletedWindow
    /\ SnapNowhere # 0 => Len(get_state.completed) = CompletedWindow

C4_Witness ==
  /\ QueueLoaded
  /\ cancel
  /\ state.status = "cancelled"
  /\ get_state.queue # <<>> /\ get_state.active # <<>> /\ get_state.completed # <<>>

\* the record appended last
LastRow(completed) == completed[Len(completed)]

\* a step of one run (not a start) moves incidents along queued -> active ->
\* completed only
LifecycleStep ==
  /\ QueueIds' \subseteq QueueIds \/ pc = "load"
  /\ (ActiveIds' \ ActiveIds) \subseteq (QueueIds \ QueueIds')
  /\ (CompletedIds' \ CompletedIds) \subseteq (ActiveIds \ ActiveIds')
  /\ (ActiveIds \ ActiveIds') \subseteq (CompletedIds' \ QueueIds')
  /\ \A i \in ActiveIds \ ActiveIds' :
       tasks[i].st = "raised" =>
         /\ LastRow(state.completed').incident_id = i
         /\ ~LastRow(state.completed').service_up
         /\ LastRow(state.completed').error

\* C5: each incident follows queued -> active -> completed and nothing else; it
\* becomes active at most once, is recorded at most once and never returns to
\* the queue; an incident whose Runner call raised is recorded as a failed
\* completion and is not requeued.
C5_Lifecycle ==
  /\ []OwnDisjoint
  /\ [][pc' # "setup" => LifecycleStep]_vars

C5_Witness ==
  /\ \E k \in DOMAIN state.completed : state.completed[k].error
  /\ active # <<>>

\* C6: an exception of one incident's Runner call never aborts the run: the
\* incident gets a record with service_up false, step_count 999, latency 0.0 and
\* an error field, the remaining incidents are still assigned, and the run ends
\* "completed" with every incident recorded.
C6_FailureIsRecorded ==
  /\ \A k \in DOMAIN state.completed :
       state.completed[k].error =>
         /\ ~state.completed[k].service_up
         /\ state.completed[k].step_count = ErrorStepCount
         /\ state.completed[k].latency_s = "0.0"
  /\ state.status = "failed" => state.error \in {"config", "setup", "max_workers"}
  /\ (pc = "loop" /\ ~cancel) => (queue = <<>> \/ Len(active) = concurrency)
  /\ (pc \in {"wait", "handle", "resubmit", "exit", "finish"}) => state.status = "running"
  /\ state.status = "completed" =>
       /\ queue = <<>> /\ active = <<>> /\ tasks = <<>>
       /\ Len(state.completed) =
            IF payload.incidents <= CompletedWindow THEN payload.incidents
            ELSE CompletedWindow

C6_Witness ==
  /\ state.status = "completed"
  /\ payload.incidents >= 2
  /\ state.completed[1].error
  /\ Len(state.completed) = payload.incidents

(***************************************************************************)
(* Properties of the runner                                                *)
(***************************************************************************)
\* the order of the risk levels: UNKNOWN < LOW < MEDIUM < HIGH
RiskLevelOrder(l) ==
  CASE l = "UNKNOWN" -> 0 [] l = "LOW" -> 1 [] l = "MEDIUM" -> 2 [] l = "HIGH" -> 3

\* the attempts before the last one all failed with a transient error
EarlierTransient ==
  \A i \in 1..(Len(outcomes) - 1) : outcomes[i] = "transient"

\* forward() returned the outcome of a Real session
RealReturned ==
  fpc = "done" /\ ~call.dry_run /\ result.kind = "returned" /\ ~result.fallback_used

\* C7: with real_max_retries = R, transient failures on attempts 1..N-1 and a
\* success on attempt N <= R+1 give the Real outcome without fallback after
\* exactly N attempts; transient failures on every attempt give exactly R+1
\* attempts and then the fallback outcome, or the exception when fallback is
\* not allowed.
C7_RetryUntilSuccessOrExhausted ==
  (fpc = "done" /\ ~call.dry_run /\ outcomes # <<>> /\ EarlierTransient) =>
    /\ outcomes[Len(outcomes)] = "ok" =>
         /\ result.kind = "returned" /\ ~result.fallback_used
         /\ result.out = RealResult(events, call)
         /\ attempt = Len(outcomes)
         /\ Len(outcomes) <= real_max_retries + 1
    /\ outcomes[Len(outcomes)] = "transient" =>
         /\ Len(outcomes) = real_max_retries + 1
         /\ attempt = real_max_retries + 1
         /\ call.use_mock_if_sdk_missing =>
              result.kind = "returned" /\ result.fallback_used
         /\ ~call.use_mock_if_sdk_missing => result.kind = "raised"

C7_Witness ==
  /\ fpc = "done" /\ ~call.dry_run
  /\ real_max_retries = 2
  /\ outcomes = <<"transient", "transient", "ok">>
  /\ result.kind = "returned" /\ ~result.fallback_used

\* C8: an attempt that fails with an error not classified as transient ends the
\* retry loop at once: no further attempt and no back-off sleep follow it.
C8_NonTransientEndsLoop ==
  \A i \in DOMAIN outcomes :
    outcomes[i] = "error" =>
      /\ i = Len(outcomes)
      /\ attempt = i
      /\ Len(sleeps) = i - 1
      /\ fpc \in {"raise", "done"}

C8_Witness ==
  /\ fpc = "done"
  /\ outcomes = <<"transient", "error">>
  /\ last_exc.kind = "backend"
  /\ attempt + 2 <= max_attempts

\* a risk observed in the session of the last attempt is above the ceiling
RiskAboveCeiling ==
  \E i \in DOMAIN events :
    RiskLevelOrder(events[i].security_risk) > RiskLevelOrder(call.max_security_risk)

\* C9: when the highest risk observed among a Real run's actions is strictly
\* greater than the policy's max_security_risk, forward never returns an
\* outcome with fallback_used = false: it raises or returns a fallback outcome.
C9_RiskCeiling ==
  (fpc = "done" /\ ~call.dry_run /\ call.max_security_risk \in RiskLevels
     /\ RiskAboveCeiling) =>
    \/ result.kind = "raised"
    \/ result.kind = "returned" /\ result.fallback_used

C9_Witness ==
  /\ fpc = "done" /\ ~call.dry_run
  /\ call.max_security_risk = "LOW"
  /\ RiskAboveCeiling
  /\ events[1].security_risk = "LOW"
  /\ result.kind = "returned" /\ result.fallback_used
  /\ result.fallback_reason.kind = "risk"

\* a risk observed in the session of the last attempt reaches the threshold
RiskReachesThreshold ==
  /\ call.require_confirmation_for_risk # "None"
  /\ \E i \in DOMAIN events :
       RiskLevelOrder(events[i].security_risk)
         >= RiskLevelOrder(call.require_confirmation_for_risk)

\* C10: with require_confirmation_for_risk = T a Real run is marked
\* confirmation_required iff an observed risk is >= T, and is rejected when
\* auto_confirm is false; so a non-fallback outcome with confirmation_required
\* was produced with auto_confirm, and confirmation_required is false when no
\* threshold is set.
C10_ConfirmationRequired ==
  /\ RealReturned =>
       /\ result.out.confirmation_required = RiskReachesThreshold
       /\ result.out.confirmation_required => call.auto_confirm
  /\ (fpc = "done" /\ ~call.dry_run /\ RiskReachesThreshold /\ ~call.auto_confirm) =>
       ~(result.kind = "returned" /\ ~result.fallback_used)
  /\ (fpc = "done" /\ result.kind = "returned"
        /\ call.require_confirmation_for_risk = "None") =>
       ~result.out.confirmation_required

C10_Witness ==
  /\ RealReturned
  /\ result.out.confirmation_required
  /\ call.require_confirmation_for_risk = "MEDIUM"
  /\ events[1].security_risk = "LOW"

(***************************************************************************)
(* Properties of the continuous-arrival dispatcher                         *)
(***************************************************************************)
\* C3 as stated: in continuous-arrival mode the incidents in the dispatcher's
\* active map that have not yet completed are at most `concurrency`; incidents
\* that arrive while all workers are busy are not in the active map.
C3_ActiveMapBounded ==
  fan_pc \notin {"idle", "crashed"} =>
    /\ Cardinality(fan_active \ FinishedIds) <= args.concurrency
    /\ Range(work_queue) \cap fan_active = {}

\* C3 as amended: the incidents a worker is running are at most `concurrency`;
\* an incident that arrives while all workers are busy waits in the executor's
\* work queue, and every waiting or running incident is in the active map.
C3_RunningBounded ==
  fan_pc \notin {"idle", "crashed"} =>
    /\ Cardinality(running) <= args.concurrency
    /\ Range(work_queue) \cap running = {}
    /\ Range(work_queue) \cup running \subseteq fan_active

C3_Witness ==
  /\ fan_pc = "arrive"
  /\ Cardinality(running) = args.concurrency
  /\ work_queue # <<>>
  /\ Cardinality(fan_active) > args.concurrency

\* the last failed attempt was rejected after its session had completed
RejectedAfterSession == last_exc.kind \in {"no_actions", "risk", "confirm"}

\* C11: a Real attempt rejected after its session completed (no terminal or
\* file_editor action, risk ceiling exceeded, confirmation required and not
\* granted) is never retried: no sleep and no further attempt follow it, a
\* rejection on the first attempt leaves exactly one session opened, and the
\* caller gets the fallback outcome when fallback is allowed.
C11_RejectionNotRetried ==
  RejectedAfterSession =>
    /\ fpc \in {"raise", "done"}
    /\ attempt = Len(outcomes)
    /\ outcomes[Len(outcomes)] # "ok"
    /\ (attempt = 1 => opened = 1)
    /\ (fpc = "done" /\ call.use_mock_if_sdk_missing) =>
         (result.kind = "returned" /\ result.fallback_used)

\* forward() returned a dict that has the key fallback_reason
HasFallbackReason == "fallback_reason" \in DOMAIN result

\* C12: when all Real attempts of a non-dry-run call fail or are rejected, the
\* result is the simulated outcome with fallback_used = true and fallback_reason
\* the last error if fallback is allowed, and the last error propagates if it is
\* not; fallback_reason is present iff fallback_used is true; fallback_used is
\* false on every dry-run result and every Real success.
C12_FallbackOrPropagate ==
  fpc = "done" =>
    /\ result.kind = "returned" => (HasFallbackReason <=> result.fallback_used)
    /\ result.kind = "raised" => ~HasFallbackReason
    /\ call.dry_run => (result.kind = "returned" /\ ~result.fallback_used)
    /\ (~call.dry_run /\ outcomes[Len(outcomes)] = "ok") =>
         (result.kind = "returned" /\ ~result.fallback_used)
    /\ (~call.dry_run /\ outcomes[Len(outcomes)] # "ok") =>
         /\ last_exc.kind # "none"
         /\ call.use_mock_if_sdk_missing =>
              /\ result.kind = "returned" /\ result.fallback_used
              /\ result.fallback_reason = last_exc
              /\ result.out = _mock_run(call.strategy_hint, MockReport(call))
              /\ result.out.service_up
         /\ ~call.use_mock_if_sdk_missing =>
              (result.kind = "raised" /\ result.exc = last_exc)

C12_Witness ==
  /\ fpc = "done" /\ ~call.dry_run
  /\ outcomes = <<"transient", "error">>
  /\ result.kind = "returned" /\ result.fallback_used
  /\ result.fallback_reason.kind = "confirm"

\* C13: a forward() call with dry_run = true never invokes the Real adapter,
\* never sleeps or retries, applies no security policy, never raises for any
\* scenario id or error report, and returns the simulated outcome with
\* fallback_used = false.
C13_DryRunIsSimulated ==
  (call.dry_run /\ fpc # "idle") =>
    /\ fpc = "done"
    /\ attempt = 0 /\ opened = 0 /\ open_sessions = 0
    /\ sleeps = <<>> /\ outcomes = <<>>
    /\ last_exc.kind = "none"
    /\ result.kind = "returned"
    /\ ~result.fallback_used
    /\ result.out = _mock_run(call.strategy_hint, MockReport(call))
    /\ result.out.scenario_id \in MockScenarios
    /\ result.out.service_up

C13_Witness ==
  /\ fpc = "done" /\ call.dry_run
  /\ call.scenario_id = "custom" /\ call.error_report = {}
  /\ call.max_security_risk = "UNKNOWN"
  /\ call.require_confirmation_for_risk = "LOW"
  /\ result.kind = "returned"
  /\ result.out.max_security_risk_seen = "LOW"

(***************************************************************************)
(* Properties of the verifier                                              *)
(***************************************************************************)
\* the five conditions of a successful poll
PollSucceeds(obs) ==
  /\ obs.http_code = "200"
  /\ obs.content_type = "application/json"
  /\ obs.body.kind # "invalid"
  /\ obs.body.kind = "object"
  /\ obs.body.status = "ok"
  /\ obs.body.scenario = vargs.expected_scenario

\* the polls k-n+1..k are n back-to-back successes
StreakEndsAt(k, n) ==
  /\ k >= n
  /\ k <= Len(polled)
  /\ \A j \in (k - n + 1)..k : PollSucceeds(polled[j])

\* the number of successes at the end of the polls made so far
RECURSIVE TrailingSuccesses(_)
TrailingSuccesses(k) ==
  IF k = 0 \/ ~PollSucceeds(polled[k]) THEN 0 ELSE 1 + TrailingSuccesses(k - 1)

\* C14: verify_stable_endpoint returns verified = true iff the polls contain a
\* run of consecutive_successes back-to-back successes (a failed poll resets the
\* streak), and it stops at the poll that completes the first such run; it
\* makes at most max_attempts polls.
C14_VerifiedIffStreak ==
  /\ Len(polled) <= vargs.max_attempts
  /\ vpc = "poll" =>
       ~\E k \in 1..Len(polled) : StreakEndsAt(k, vargs.consecutive_successes)
  /\ (vpc = "done" /\ verification.kind = "returned") =>
       /\ verification.verified <=>
            \E k \in 1..Len(polled) : StreakEndsAt(k, vargs.consecutive_successes)
       /\ verification.verified =>
            /\ StreakEndsAt(Len(polled), vargs.consecutive_successes)
            /\ ~\E k \in 1..(Len(polled) - 1) :
                  StreakEndsAt(k, vargs.consecutive_successes)
       /\ ~verification.verified => Len(polled) = vargs.max_attempts
       /\ verification.attempts = [k \in 1..Len(polled) |-> polled[k].http_code]

C14_Witness ==
  /\ vpc = "done"
  /\ vargs.consecutive_successes = 2
  /\ attempts = <<"500", "500", "200", "200">>
  /\ verification.kind = "returned" /\ verification.verified

\* C15: a poll counts as a success iff the HTTP code is 200, the content type
\* is JSON, the body parses as JSON, its status is "ok" and its scenario is the
\* expected one; every other poll counts as a failure and resets the streak.
C15_PollClassification ==
  vpc # "idle" =>
    /\ verification.kind # "raised"
    /\ successes = TrailingSuccesses(Len(polled))
    /\ (polled # <<>> /\ ~PollSucceeds(polled[Len(polled)])) =>
         (successes = 0 /\ last_failure # "")

\* C16: whenever verify_stable_endpoint returns verified = false it has made
\* exactly max_attempts polls and last_failure is a non-empty reason, the
\* reason of the most recent failed poll; also for consecutive_successes >
\* max_attempts.
C16_FailureHasReason ==
  (vpc = "done" /\ verification.kind = "returned" /\ ~verification.verified) =>
    /\ Len(attempts) = vargs.max_attempts
    /\ Len(verification.attempts) = vargs.max_attempts
    /\ verification.last_failure # ""
    /\ \E k \in 1..Len(polled) :
         /\ ~PollSucceeds(polled[k])
         /\ \A j \in (k + 1)..Len(polled) : PollSucceeds(polled[j])
         /\ verification.last_failure = Reason(polled[k], vargs.expected_scenario)

(***************************************************************************)
(* Properties of run_demo                                                  *)
(***************************************************************************)
\* C17: the Real adapter never reports health itself: every non-fallback Real
\* outcome has service_up = false; and in a non-simulated run_demo run the
\* reported service_up equals the final verified value of the verification,
\* whatever the runner returned and whether or not fallback was used.
C17_ServiceUpFromVerifier ==
  /\ (fpc = "done" /\ ~call.dry_run /\ result.kind = "returned"
        /\ ~result.fallback_used) => ~result.out.service_up
  /\ (dpc = "verify" /\ ~demo_result.fallback_used) => ~demo_result.out.service_up
  /\ (dpc = "done" /\ ~dargs.simulate) =>
       /\ verification.kind = "returned"
       /\ demo_result.out.service_up = verification.verified
       /\ (container_identity.kind = "checked" /\ ~container_identity.verified) =>
            ~demo_result.out.service_up
       /\ demo_result.out.service_up =>
            StreakEndsAt(Len(polled), vargs.consecutive_successes)

C17_Witness ==
  /\ dpc = "done" /\ ~dargs.simulate
  /\ demo_result.fallback_used
  /\ ~demo_result.out.service_up
  /\ verification.kind = "returned" /\ ~verification.verified

(***************************************************************************)
(* Cancellation and records of the web dispatcher                          *)
(***************************************************************************)
\* a step of a run that has observed the cancel signal by the end of the step:
\* the queue keeps its incidents, no incident becomes active, no running task
\* is dropped
NoAssignmentStep ==
  /\ queue' = queue
  /\ {active'[k].inc.id : k \in DOMAIN active'} \subseteq ActiveIds
  /\ \A f \in DOMAIN tasks : tasks[f].st = "running" => f \in DOMAIN tasks'

\* C18: once the dispatcher has observed the cancel signal no further incident
\* moves from the queue to a worker; the incidents already executing are not
\* interrupted and the final status is set only after they have finished; the
\* final status of a run that observed the cancel signal is 'cancelled', never
\* 'completed'.
C18_CancelIsCooperative ==
  /\ [][cancel_seen' => NoAssignmentStep]_vars
  /\ [](state.status \in {"completed", "cancelled"} =>
          \A f \in DOMAIN tasks : tasks[f].st # "running")
  /\ [](cancel_seen => state.status \in {"running", "cancelled"})
  /\ []((cancel_seen /\ pc = "done") => state.status = "cancelled")

C18_Witness ==
  /\ cancel_seen
  /\ pc = "done"
  /\ state.status = "cancelled"
  /\ queue # <<>>
  /\ active # <<>>
  /\ state.completed # <<>>

\* C19: every incident whose Runner call finished (returned or raised) has
\* exactly one record in the completed output by the time the run reports its
\* final status, for runs that end 'completed' and runs that end 'cancelled'.
C19_OneRecordPerFinishedCall ==
  (pc = "done" /\ state.status \in {"completed", "cancelled"}) =>
    /\ Cardinality(CompletedIds) = Len(state.completed)
    /\ GeneratedIds \ (QueueIds \cup ActiveIds) \subseteq CompletedIds
    /\ \A k \in DOMAIN active :
         (active[k].fut \in DOMAIN tasks /\ tasks[active[k].fut].st # "running") =>
           active[k].inc.id \in CompletedIds

\* C20: in continuous-arrival mode, when every Runner call terminates, a run
\* that entered the loop reaches its end; it is at its end only with the
\* arrival window closed and no incident active; no incident is generated
\* once the window has closed; and at the end the completed count equals the
\* number of generated incidents
C20_ContinuousTerminates ==
  /\ (fan_pc = "top") ~> (fan_pc = "final")
  /\ [](fan_pc = "final" =>
          /\ ~window_open
          /\ fan_active = {}
          /\ Len(fan_completed) = next_incident_id - 1)
  /\ [][(fan_pc # "idle" /\ ~window_open) =>
          (next_incident_id' = next_incident_id /\ ~window_open')]_vars

\* a run that generated two incidents while the window was open has ended
\* with both completed
C20_Witness ==
  /\ fan_pc = "final"
  /\ ~window_open
  /\ next_incident_id - 1 >= 2
  /\ Len(fan_completed) = next_incident_id - 1
  /\ fan_active = {}

(***************************************************************************)
(* Properties of the incident generator                                    *)
(***************************************************************************)
\* the list is in non-increasing severity rank and the incidents of one
\* severity are in ascending id
SortedStable(items) ==
  \A i, j \in DOMAIN items :
    i < j =>
      /\ SEVERITY_RANK[items[i].severity] >= SEVERITY_RANK[items[j].severity]
      /\ items[i].severity = items[j].severity => items[i].id < items[j].id

\* C21: the list the generator returns is in non-increasing severity rank,
\* incidents of equal severity are in ascending id, the ids are pairwise
\* distinct, and the list holds exactly the incidents that were generated.
C21_SortedStablePermutation ==
  /\ \A g \in DOMAIN generations :
       /\ SortedStable(generations[g].rows)
       /\ Len(generations[g].rows) = generations[g].total
       /\ {generations[g].rows[k].id : k \in DOMAIN generations[g].rows}
            = 1..generations[g].total
  /\ (gpc = "idle" /\ generations # <<>>) =>
       Range(generations[Len(generations)].rows) = Range(rows)

\* a returned list of three whose order differs from the generation order and
\* that holds two incidents of one severity
C21_Witness ==
  \E g \in DOMAIN generations :
    /\ Len(generations[g].rows) = 3
    /\ generations[g].rows[1].id = 3
    /\ generations[g].rows[2].severity = generations[g].rows[3].severity
    /\ generations[g].rows[1].severity # generations[g].rows[2].severity

\* the incidents of a list without their creation time
Seeded(items) ==
  [k \in DOMAIN items |->
     [id |-> items[k].id, scenario_id |-> items[k].scenario_id,
      severity |-> items[k].severity]]

\* two generations were made with the same seed and the same count
SameSeedAndCount ==
  /\ Len(generations) = 2
  /\ generations[1].seed = generations[2].seed
  /\ generations[1].total = generations[2].total

\* C22 as stated: with the same seed and the same count two generations give
\* the same incident sequence, every field of the records equal.
C22_IdenticalRecords ==
  SameSeedAndCount => generations[1].rows = generations[2].rows

\* C22 as amended: with the same seed and the same count two generations give
\* the same ids, scenario ids and severities in the same order; created_at is
\* the time of each generation.
C22_IdenticalButCreatedAt ==
  SameSeedAndCount => Seeded(generations[1].rows) = Seeded(generations[2].rows)

C22_Witness ==
  /\ SameSeedAndCount
  /\ generations[1].total >= 3
  /\ generations[1].rows # generations[2].rows
  /\ generations[1].rows[1].id # 1

(***************************************************************************)
(* Properties of the snapshots and of the completed window                 *)
(***************************************************************************)
\* C23: in every snapshot returned by get_state, whatever the dispatcher
\* thread is doing, summary.queue, summary.active and summary.completed are the
\* lengths of the snapshot's queue, active and completed lists, summary.fixed
\* is the number of completed records with service_up true, and summary.fixed +
\* summary.failed = summary.completed.
C23_SnapshotConsistent ==
  /\ get_state.summary.queue = Len(get_state.queue)
  /\ get_state.summary.active = Len(get_state.active)
  /\ get_state.summary.completed = Len(get_state.completed)
  /\ get_state.summary.fixed = CountFixed(get_state.completed)
  /\ get_state.summary.fixed + get_state.summary.failed = get_state.summary.completed

\* a snapshot of a run in progress with fixed and failed records and an active
\* incident
C23_Witness ==
  /\ get_state.status = "running"
  /\ get_state.summary.fixed >= 1
  /\ get_state.summary.failed >= 1
  /\ get_state.summary.active >= 1
  /\ pc = "wait"

\* the run in progress was requested in real mode with no remote host and
\* without allow_local_workspace
RealWithoutTarget ==
  pc # "none" /\ ~payload.simulate /\ ~payload.remote_host
    /\ ~payload.allow_local_workspace

\* the run in progress has a usable configuration and a concurrency for which
\* ThreadPoolExecutor raises
PoolCannotBeCreated ==
  /\ pc # "none"
  /\ payload.simulate \/ payload.remote_host \/ payload.allow_local_workspace
  /\ payload.concurrency <= 0

\* no incident was dispatched and no pool was created
NothingDispatched ==
  /\ pc \in {"setup", "load", "pool", "done"}
  /\ tasks = <<>> /\ active = <<>>
  /\ get_state.active = <<>> /\ get_state.completed = <<>>

SimulatedReturned ==
  /\ fpc = "done"
  /\ result.kind = "returned"
  /\ call.dry_run \/ result.fallback_used

\* C25: a simulated outcome is for one of the four known scenarios, has
\* service_up = true, and has 3 steps when the hint is recognized as optimized
\* for its scenario and otherwise 6 steps for stale_lockfile and 5 for the
\* others; step_count is the number of events, of tool_actions and of
\* security_risks, and every risk is LOW.
C25_SimulatedPlan ==
  SimulatedReturned =>
    /\ result.out.scenario_id \in MockScenarios
    /\ result.out.service_up
    /\ result.out.step_count = Len(result.out.events)
    /\ result.out.step_count = Len(result.out.tool_actions)
    /\ result.out.step_count = Len(result.out.security_risks)
    /\ \A i \in DOMAIN result.out.security_risks : result.out.security_risks[i] = "LOW"
    /\ result.out.step_count =
         IF _is_optimized_for_scenario(call.strategy_hint, result.out.scenario_id)
           THEN 3
         ELSE IF result.out.scenario_id = "stale_lockfile" THEN 6 ELSE 5

\* a dry run for bad_env_config with a hint recognized for it
C25_Witness ==
  /\ SimulatedReturned
  /\ call.dry_run
  /\ result.out.scenario_id = "bad_env_config"
  /\ call.strategy_hint = {"env", "config"}
  /\ result.out.step_count = 3
  /\ result.out.events[3] = "curl -i target_url"

\* C26: the simulated outcome depends only on the supplied scenario_id and on
\* whether the hint is recognized for it: a dry run with a known scenario_id
\* returns that scenario_id and the plan of that scenario, whatever the text of
\* the error report.
C26_IndependentOfReport ==
  (fpc = "done" /\ call.dry_run /\ call.scenario_id \in MockScenarios) =>
    /\ result.kind = "returned"
    /\ result.out.scenario_id = call.scenario_id
    /\ result.out.events =
         _mock_plan(call.scenario_id,
                    _is_optimized_for_scenario(call.strategy_hint, call.scenario_id))
    /\ result.out.step_count = Len(result.out.events)

\* C28: in every non-fallback Real outcome security_risks has one entry per
\* entry of tool_actions (len(security_risks) = len(tool_actions) =
\* step_count), and max_security_risk_seen is the maximum of security_risks in
\* the order UNKNOWN < LOW < MEDIUM < HIGH.
C28_OneRiskPerToolAction ==
  RealReturned =>
    /\ Len(result.out.security_risks) = Len(result.out.tool_actions)
    /\ Len(result.out.tool_actions) = result.out.step_count
    /\ \A i \in DOMAIN result.out.security_risks :
         RiskLevelOrder(result.out.security_risks[i])
           <= RiskLevelOrder(result.out.max_security_risk_seen)
    /\ result.out.security_risks # <<>> =>
         result.out.max_security_risk_seen \in Range(result.out.security_risks)

\* the step that handles a finished future appends its record, after dropping
\* the oldest record when the window is full; no other step of a run changes
\* the completed list
WindowStep ==
  IF pc = "handle" /\ pc' = "resubmit"
    THEN /\ state.completed' # <<>>
         /\ SubSeq(state.completed', 1, Len(state.completed') - 1) =
              IF Len(state.completed) = CompletedWindow
                THEN Tail(state.completed) ELSE state.completed
         /\ {LastRow(state.completed').incident_id} = ActiveIds \ ActiveIds'
    ELSE pc' # "setup" => state.completed' = state.completed

\* C27: the completed list of the web dispatcher never holds more than 400
\* records, and a record appended to a full list evicts the oldest one, so the
\* list is the most recent completions in completion order.
C27_TrailingWindow ==
  /\ [](Len(state.completed) <= CompletedWindow
        /\ Len(get_state.completed) <= CompletedWindow)
  /\ [][WindowStep]_vars

\* a run of more incidents than the window holds has completed
C27_Witness ==
  /\ payload.incidents > CompletedWindow
  /\ state.status = "completed"
  /\ Len(state.completed) = CompletedWindow
  /\ state.summary.completed = CompletedWindow

(***************************************************************************)
(* Properties of the assignment order                                      *)
(***************************************************************************)
\* the incidents a step assigns are the first incidents of the queue, in queue
\* order: they leave the front of the queue and join the end of active
AssignStep ==
  (pc \notin {"none", "setup", "load", "done"} /\ pc' # "setup") =>
    LET k == Len(queue) - Len(queue')
        kept == Len(active') - k
    IN /\ k >= 0 /\ kept >= 0
       /\ queue' = SubSeq(queue, k + 1, Len(queue))
       /\ \A i \in 1..k : active'[kept + i].inc = queue[i]
       /\ \A i \in 1..kept : active'[i] \in Range(active)

\* C29: in one-shot mode incidents leave the queue strictly in queue order,
\* whatever the concurrency and the order of the completions: each step assigns
\* the incidents at the front of the queue in their order, and the queue stays
\* in non-increasing severity rank, so the rank of successively assigned
\* incidents never increases.
C29_AssignedInQueueOrder ==
  /\ []SortedStable(queue)
  /\ [](\A i \in DOMAIN active : \A j \in DOMAIN queue :
          SEVERITY_RANK[active[i].inc.severity] >= SEVERITY_RANK[queue[j].severity])
  /\ [][AssignStep]_vars

\* three incidents of three severities, two workers: the third incident was
\* assigned after a completion
C29_Witness ==
  /\ payload.incidents = 3 /\ concurrency = 2 /\ payload.seed = 1
  /\ queue = <<>> /\ Len(active) = 2
  /\ Len(state.completed) = 1
  /\ active[2].inc.severity = "low"

\* C30: in one-shot mode without cancellation the pool is work-conserving:
\* whenever the dispatcher is between two futures of a batch, has finished a
\* batch or waits for the next one, the queue is empty or exactly concurrency
\* incidents are active, and never more than concurrency.
C30_WorkConserving ==
  (pc \in {"loop", "wait", "handle"} /\ ~cancel) =>
    /\ Len(queue) > 0 => Len(active) = concurrency
    /\ Len(active) < concurrency => Len(queue) = 0
    /\ Len(active) <= concurrency
    /\ Cardinality(DOMAIN tasks) = Len(active)

\* a batch has been handled, the freed slot was refilled and an incident is
\* still queued
C30_Witness ==
  /\ pc = "loop" /\ ~cancel
  /\ Len(state.completed) = 1
  /\ Len(queue) = 1
  /\ Len(active) = concurrency
  /\ get_state.summary.active = concurrency

\* the worker ids of the active incidents
ActiveWorkerIds == {active[k].worker_id : k \in DOMAIN active}

\* the entry of active that holds incident id
ActiveEntry(id) == CHOOSE a \in Range(active) : a.inc.id = id

\* a step of the dispatcher and the worker id it assigns or records
WorkerIdStep ==
  /\ (pc = "pool" /\ pc' = "loop") =>
       \A i \in DOMAIN active' : active'[i].worker_id = ((i - 1) % concurrency) + 1
  /\ (pc = "handle" /\ pc' = "resubmit") =>
       /\ Len(state.completed') > 0
       /\ LET row == LastRow(state.completed')
          IN /\ row.incident_id \in ActiveIds
             /\ row.incident_id \notin {active'[k].inc.id : k \in DOMAIN active'}
             /\ row.worker_id = ActiveEntry(row.incident_id).worker_id
             /\ cur_worker' = row.worker_id
  /\ (pc = "resubmit" /\ active' # active) =>
       /\ Len(active') = Len(active) + 1
       /\ SubSeq(active', 1, Len(active)) = active
       /\ active'[Len(active')].worker_id = cur_worker
  /\ (pc \notin {"pool", "handle", "resubmit"} /\ pc' # "setup") =>
       active' = active

\* C31: worker ids are assigned round-robin over 1..concurrency by the initial
\* fill, afterwards a newly assigned incident gets the id of the worker whose
\* completion freed the slot; the worker ids of the active incidents are always
\* pairwise distinct and in 1..concurrency, and a completed record carries the
\* id its incident was assigned.
C31_WorkerIds ==
  /\ [](/\ Cardinality(ActiveWorkerIds) = Len(active)
        /\ ActiveWorkerIds \subseteq 1..concurrency)
  /\ [](\A f \in DOMAIN tasks : tasks[f].st = "returned" =>
          tasks[f].row.worker_id = ActiveEntry(f).worker_id)
  /\ [][WorkerIdStep]_vars

\* worker 1 finished first and its id went to the third incident, while worker
\* 2 still runs the second one
C31_Witness ==
  /\ concurrency = 2 /\ Len(active) = 2
  /\ active[1].worker_id = 2 /\ active[2].worker_id = 1
  /\ Len(state.completed) = 1 /\ state.completed[1].worker_id = 1

\* the delays of the claim: 3, 6, 9 and then 10 seconds
ClaimedDelay(a) == IF a = 1 THEN 3 ELSE IF a = 2 THEN 6 ELSE IF a = 3 THEN 9 ELSE 10

\* C32: in _run_real the back-off after the failed attempt a is min(3a, 10)
\* seconds (3, 6, 9, 10, 10, ...), and a sleep happens only between two
\* attempts: a call that made n Real attempts slept exactly n - 1 times and
\* never after its last attempt.
C32_Backoff ==
  ~call.dry_run =>
    /\ \A a \in DOMAIN sleeps : sleeps[a] = ClaimedDelay(a)
    /\ fpc \in {"once", "sleep", "raise", "done"} \cup SessionPositions =>
         /\ Len(sleeps) = attempt - 1
         /\ Len(outcomes) \in {attempt - 1, attempt}
    /\ fpc = "loop" => Len(sleeps) = attempt /\ attempt < max_attempts
    /\ fpc \in {"raise", "done"} =>
         Len(outcomes) = attempt /\ Len(sleeps) = Len(outcomes) - 1

\* five Real attempts, the last one successful, and the four sleeps before it
C32_Witness ==
  /\ ~call.dry_run /\ fpc = "done" /\ attempt = 5
  /\ outcomes = <<"transient", "transient", "transient", "transient", "ok">>
  /\ sleeps = <<3, 6, 9, 10>>

\* the endpoint verification of the run reached its streak
EndpointVerified == StreakEndsAt(Len(polled), vargs.consecutive_successes)

\* C33: in a non-simulated run_demo run with a target container and the
\* identity check enabled, the final verified is true only if the endpoint
\* reached the streak and the container exists, is running and runs the
\* expected image; a failed identity check turns an endpoint-verified result
\* into verified = false and service_up = false.
C33_IdentityGate ==
  (dpc = "done" /\ ~dargs.simulate /\ dargs.identity_check) =>
    /\ container_identity.kind = "checked"
    /\ verification.verified =>
         /\ EndpointVerified
         /\ container_identity.exists
         /\ container_identity.running
         /\ container_identity.image_matches
    /\ ~(container_identity.exists /\ container_identity.running
           /\ container_identity.image_matches) =>
         ~verification.verified /\ ~demo_result.out.service_up

\* the endpoint reached its streak, but the container runs another image
C33_Witness ==
  /\ dpc = "done" /\ ~dargs.simulate /\ dargs.identity_check
  /\ EndpointVerified
  /\ container_identity.kind = "checked"
  /\ container_identity.exists /\ container_identity.running
  /\ ~container_identity.image_matches
  /\ ~verification.verified /\ ~demo_result.out.service_up

\* C34: every Real attempt drives its session under real_run_timeout_s: no
\* attempt runs a session without a timeout, and an attempt that fails (by
\* exceeding the timeout or otherwise) is retried only if its error is
\* classified transient and attempts remain.
C34_TimeoutEnforced ==
  /\ fpc # "session_untimed"
  /\ fpc = "sleep" => _is_transient_remote_error(last_exc) /\ attempt < max_attempts
  /\ (fpc = "raise" /\ ~_is_transient_remote_error(last_exc)) =>
       outcomes[Len(outcomes)] = "error"

\* the _run_job thread is alive: it has been started and has not yet set the
\* final status
DispatcherAlive == pc \notin {"none", "done"}

\* a step that starts a dispatcher
DispatcherStarts == pc' = "setup" /\ (pc # "setup" \/ payload' # payload \/ state' # state)

\* a step taken while a run is in progress that is no step of the dispatcher,
\* of a task or of stop(): a start() call
StartWhileRunning ==
  /\ state.status = "running"
  /\ pc' = pc /\ stop_pc' = stop_pc /\ tasks' = tasks

\* C35: start() while the status is 'running' returns (False, 'A run is
\* already in progress') and leaves the state, the cancel flag and the running
\* dispatcher untouched; a dispatcher is started only when none is alive, so
\* at most one dispatcher assigns incidents at any time.
C35_SingleRun ==
  /\ [](DispatcherAlive <=> state.status = "running")
  /\ [][StartWhileRunning =>
          /\ webVars' = webVars
          /\ response' = [kind |-> "run", ok |-> FALSE,
                          message |-> "A run is already in progress", code |-> 409]]_vars
  /\ [][DispatcherStarts => ~DispatcherAlive /\ ~state.status = "running"]_vars

\* a second start was refused while two incidents were running
C35_Witness ==
  /\ response.kind = "run" /\ ~response.ok
  /\ state.status = "running" /\ pc = "wait"
  /\ Len(active) = 2 /\ ~cancel

\* the step of stop() that sets the cancel event
StopSets == stop_pc = "set" /\ stop_pc' = "idle"

\* the step of a stop() call that finds no run in progress
StopFindsNoRun ==
  /\ stop_pc = "idle" /\ stop_pc' = "idle"
  /\ state.status # "running"
  /\ response' # response /\ response'.kind = "stop"

\* C36: stop() can only cancel the run that was in progress when it read the
\* status: under every interleaving of stop(), the end of that run and a
\* following start(), a run started after the stop call was issued is never
\* cancelled by it; a stop() with no run in progress returns False and leaves
\* the cancel flag as it was.
C36_StopCancelsObservedRun ==
  /\ [][StopSets => ~(stop_target = "previous" /\ state.status = "running" /\ cancel')]_vars
  /\ [][StopFindsNoRun => ~response'.ok /\ cancel' = cancel]_vars

\* the final statuses of a run
FinalStatuses == {"completed", "cancelled", "failed"}

\* a change of the status: a run ends, or start() accepts a run
StatusStep ==
  state'.status # state.status =>
    \/ state.status = "running" /\ state'.status \in FinalStatuses /\ pc' = "done"
    \/ state.status # "running" /\ state'.status = "running" /\ pc' = "setup"

\* C37: every run accepted by start() eventually leaves 'running' and reaches
\* exactly one of 'completed', 'cancelled' and 'failed', provided every Runner
\* call terminates, with or without stop() and also when the set-up or an
\* incident raises; the status then stays unchanged until the next accepted
\* start().
C37_RunEnds ==
  /\ (state.status = "running") ~> (state.status \in FinalStatuses)
  /\ [](state.status \in {"idle", "running"} \cup FinalStatuses)
  /\ [](pc = "done" => state.status \in FinalStatuses)
  /\ [][StatusStep]_vars

\* a run whose incident raised has ended 'completed' with an error record
C37_Witness ==
  /\ pc = "done" /\ state.status = "completed"
  /\ Len(state.completed) = 1 /\ state.completed[1].error

\* C38: every Real session opened by _run_real_once is closed exactly once
\* before that attempt returns or raises (success, policy rejection, backend
\* error): a session is open only while its attempt drives it, so across the
\* retries at most one session is open at any time and none is left open when
\* forward() returns or raises.
C38_SessionsClosed ==
  /\ open_sessions \in {0, 1}
  /\ open_sessions = 1 <=> fpc \in SessionPositions
  /\ fpc \in {"idle", "loop", "once", "sleep", "raise", "done"} => open_sessions = 0
  /\ opened <= attempt

\* three attempts, each with a session of its own: two backend errors and a
\* policy rejection; forward() has raised and no session is open
C38_Witness ==
  /\ fpc = "done" /\ ~call.dry_run /\ result.kind = "raised"
  /\ attempt = 3 /\ opened = 3
  /\ outcomes = <<"transient", "transient", "error">>
  /\ last_exc.kind # "backend"
  /\ open_sessions = 0

\* C39: in a non-simulated dispatcher run an incident is counted as fixed
\* (service_up = true in its completed record) only if its Real remediation
\* succeeded: a record of the simulation fallback or of a raised call is never
\* counted as fixed, and summary.fixed counts no such record.
C39_FixedOnlyByReal ==
  (~payload.simulate /\ state.status # "idle") =>
    /\ \A i \in DOMAIN state.completed :
         state.completed[i].service_up =>
           ~state.completed[i].fallback_used /\ ~state.completed[i].error
    /\ state.summary.fixed <=
         Cardinality({i \in DOMAIN state.completed :
                        ~state.completed[i].fallback_used /\ ~state.completed[i].error})

\* the futures of the pool whose task() is still running
RunningTasks == {f \in DOMAIN tasks : tasks[f].st = "running"}

\* the positions of the dispatcher in which the pool exists: between the
\* initial fill and the end of the with block
PoolPositions == {"loop", "wait", "handle", "resubmit", "exit"}

\* C40: a real-mode web run never has more than one incident active, whatever
\* concurrency was requested: the effective concurrency is capped to 1 before
\* the pool is created; a simulated run uses the requested concurrency.
C40_RealModeSerial ==
  /\ ~payload.simulate =>
       /\ Len(active) <= 1
       /\ Cardinality(RunningTasks) <= 1
       /\ Len(state.active) <= 1 /\ state.summary.active <= 1
       /\ pc \in {"pool"} \cup PoolPositions => concurrency <= 1
  /\ (payload.simulate /\ pc \in {"pool"} \cup PoolPositions) =>
       concurrency = payload.concurrency
  /\ (payload.simulate /\ pc \in {"loop", "wait"} /\ ~cancel /\ queue # <<>>) =>
       Len(active) = payload.concurrency

\* a real-mode run asked for two workers: one incident is active, two wait
C40_Witness ==
  /\ ~payload.simulate /\ payload.concurrency = 2 /\ payload.incidents = 3
  /\ pc = "wait" /\ concurrency = 1
  /\ Len(active) = 1 /\ Len(queue) = 2
  /\ Cardinality(RunningTasks) = 1

====
